---------------------------- MODULE Spec2Model ----------------------------
(***************************************************************************)
(* The MCP client of crates/mcp-client: the client facade (McpClient), the *)
(* tower service wrapper (McpService, optionally under a timeout), the     *)
(* transport handle's send_message and the pending-request table.          *)
(*                                                                         *)
(* Tasks share one McpClient (behind an Arc, as examples/clients does) and *)
(* one transport handle.  A task runs one operation at a time: a client    *)
(* operation, or a send made directly on a clone of the transport handle.  *)
(*                                                                         *)
(* Beside it: the wire codec of crates/mcp-core (protocol.rs), applied to  *)
(* bounded sets of lines and messages, and the server loop of              *)
(* crates/mcp-server (ByteTransport and Server::run).                      *)
(***************************************************************************)
EXTENDS Integers, Sequences, FiniteSets, TLC

(***************************************************************************)
(* Bounds of the model.                                                    *)
(***************************************************************************)
\* The largest request id the client mints (the AtomicU64 is unbounded).
MaxId == 3
\* The number of one-shot reply channels created in one behaviour.
MaxSlots == 2
\* The number of reads of the server's input in one behaviour.
MaxFrames == 3

Tasks == {"t1", "t2"}

(***************************************************************************)
(* Option<T>: None is the empty sequence, Some(x) the one-element one.     *)
(***************************************************************************)
None == << >>
Some(x) == << x >>
IsSome(o) == o # << >>
Unwrap(o) == o[1]

(***************************************************************************)
(* protocol.rs: error codes and the capability categories.                 *)
(***************************************************************************)
METHOD_NOT_FOUND == -32601
INVALID_REQUEST == -32600
INTERNAL_ERROR == -32603
PARSE_ERROR == -32700
INVALID_PARAMS == -32602

Categories == {"resources", "tools", "prompts"}
\* ServerCapabilities: the set of categories whose sub-object is present.
\* The servers of the model advertise nothing, tools only (as the capability
\* gating scenario does), or resources and prompts.
CapsChoices == {{}, {"tools"}, {"resources", "prompts"}}

InitializeOp == "initialize"
GatedOps == {"list_resources", "read_resource", "list_tools", "call_tool",
             "list_prompts", "get_prompt"}
ListOps == {"list_resources", "list_tools", "list_prompts"}
\* A send made directly on the transport handle (TransportHandle::send).
RawOp == "handle_send"
\* The ids of the requests sent directly on the handle: they may collide
\* with each other and with the ids the client mints.
RawIds == {1, 2}

\* The wire method of each client operation.
Method(o) ==
  CASE o = "initialize" -> "initialize"
    [] o = "list_resources" -> "resources/list"
    [] o = "read_resource" -> "resources/read"
    [] o = "list_tools" -> "tools/list"
    [] o = "call_tool" -> "tools/call"
    [] o = "list_prompts" -> "prompts/list"
    [] o = "get_prompt" -> "prompts/get"
    [] OTHER -> "raw"

\* The capability category each gated operation tests.
Category(o) ==
  CASE o \in {"list_resources", "read_resource"} -> "resources"
    [] o \in {"list_tools", "call_tool"} -> "tools"
    [] OTHER -> "prompts"

(***************************************************************************)
(* JsonRpcMessage values.  result is None, Some("good") (deserializes into *)
(* the operation's typed result), Some("bad") (does not) or, in the reply  *)
(* to initialize, Some(caps).  error is None or Some(ErrorData).           *)
(***************************************************************************)
Msg(ty, i, m, r, e) ==
  [type |-> ty, jsonrpc |-> "2.0", id |-> i, method |-> m, params |-> None,
   result |-> r, error |-> e]
Nil == Msg("Nil", None, "", None, None)
\* What the receiving half of a one-shot channel yields when its sender is
\* dropped without a value.
RecvError == Msg("RecvError", None, "", None, None)

ErrorCodes == {INVALID_REQUEST, INTERNAL_ERROR}

\* The message of the ErrorData a peer sends with each code.
PeerMessage(code) ==
  CASE code = INVALID_REQUEST -> "Tool nope not found"
    [] OTHER -> "internal"

\* ErrorData (data is absent throughout).
ErrorData(code, message) == [code |-> code, message |-> message]

(***************************************************************************)
(* The wire form: one line of text.  A line that is a JSON object is       *)
(* modelled by its members jsonrpc, id, method, params, result and error   *)
(* (members of other names are ignored by the parser).  A member is        *)
(* J(k, v): k says whether the member is absent, is the literal null, or   *)
(* holds a value of some JSON type, and v is the value it then holds.      *)
(***************************************************************************)
J(k, v) == [k |-> k, v |-> v]
NoErrorData == ErrorData(0, "")
\* The absent member and the null member, for each type of v.
AbsentNum == J("absent", 0)
NullNum == J("null", 0)
AbsentStr == J("absent", "")
NullStr == J("null", "")
AbsentErr == J("absent", NoErrorData)
NullErr == J("null", NoErrorData)

\* A line holding a JSON object with the given members.
ObjectLine(v, i, m, p, r, e) ==
  [kind |-> "object", jsonrpc |-> v, id |-> i, method |-> m, params |-> p,
   result |-> r, error |-> e]
\* Lines that hold no JSON object: bytes that are not UTF-8, text that is
\* not JSON, and a JSON value that is not an object (null, a number).
OtherLine(kind) ==
  [kind |-> kind, jsonrpc |-> AbsentStr, id |-> AbsentNum, method |-> AbsentStr,
   params |-> AbsentStr, result |-> AbsentStr, error |-> AbsentErr]
NullLine == OtherLine("null")

\* serde_json::Value payloads of params and result: the null value and one
\* object.
JsonValues == {"null", "{}"}

\* Serialize for Option<T> fields, all under skip_serializing_if =
\* "Option::is_none": None writes no member; Some(Value::Null) writes null.
SerId(o) == IF IsSome(o) THEN J("number", Unwrap(o)) ELSE AbsentNum
SerValue(o) ==
  IF ~IsSome(o) THEN AbsentStr
  ELSE IF Unwrap(o) = "null" THEN NullStr ELSE J("value", Unwrap(o))
SerError(o) == IF IsSome(o) THEN J("object", Unwrap(o)) ELSE AbsentErr

\* serde_json::to_string(&JsonRpcMessage): the enum is untagged, so the
\* line is that of the variant's struct; the unit variant Nil is null.
Serialize(m) ==
  CASE m.type = "Request" ->
         ObjectLine(J("string", m.jsonrpc), SerId(m.id), J("string", m.method),
                    SerValue(m.params), AbsentStr, AbsentErr)
    [] m.type = "Response" ->
         ObjectLine(J("string", m.jsonrpc), SerId(m.id), AbsentStr, AbsentStr,
                    SerValue(m.result), SerError(m.error))
    [] m.type = "Notification" ->
         ObjectLine(J("string", m.jsonrpc), AbsentNum, J("string", m.method),
                    SerValue(m.params), AbsentStr, AbsentErr)
    [] m.type = "Error" ->
         ObjectLine(J("string", m.jsonrpc), SerId(m.id), AbsentStr, AbsentStr,
                    AbsentStr, SerError(m.error))
    [] OTHER -> NullLine

\* Deserialize for JsonRpcRaw: the members that have the wrong JSON type
\* for their field (jsonrpc: String, id: Option<u64>, method:
\* Option<String>, error: Option<ErrorData>; any value fits Option<Value>).
IllTyped(l) ==
  \/ l.jsonrpc.k # "string"
  \/ l.id.k \notin {"absent", "null", "number"}
  \/ l.method.k \notin {"absent", "null", "string"}
  \/ l.error.k \notin {"absent", "null", "object"}

\* Deserialize for an Option<T> field: an absent member and a null member
\* are both None.
DeOption(j) == IF j.k \in {"absent", "null"} THEN None ELSE Some(j.v)

\* JsonRpcRaw from a well-typed object.
Raw(l) ==
  [jsonrpc |-> l.jsonrpc.v, id |-> DeOption(l.id), method |-> DeOption(l.method),
   params |-> DeOption(l.params), result |-> DeOption(l.result),
   error |-> DeOption(l.error)]

Ok(x) == [ok |-> TRUE, val |-> x, err |-> ""]
Err(e) == [ok |-> FALSE, val |-> Nil, err |-> e]

\* Variant of TryFromRaw: the result member is looked at before the error
\* member.
TryFromRawResultFirst(raw) ==
  IF IsSome(raw.result)
  THEN Ok([Msg("Response", raw.id, "", raw.result, None)
             EXCEPT !.jsonrpc = raw.jsonrpc])
  ELSE IF IsSome(raw.error)
  THEN Ok([Msg("Error", raw.id, "", None, raw.error)
             EXCEPT !.jsonrpc = raw.jsonrpc])
  ELSE IF IsSome(raw.method)
  THEN IF raw.id = None
       THEN Ok([Msg("Notification", None, Unwrap(raw.method), None, None)
                  EXCEPT !.jsonrpc = raw.jsonrpc, !.params = raw.params])
       ELSE Ok([Msg("Request", raw.id, Unwrap(raw.method), None, None)
                  EXCEPT !.jsonrpc = raw.jsonrpc, !.params = raw.params])
  ELSE IF raw.id = None /\ raw.result = None /\ raw.error = None
  THEN Ok(Nil)
  ELSE Err("Invalid JSON-RPC message format")

\* impl TryFrom<JsonRpcRaw> for JsonRpcMessage
TryFromRaw(raw) ==
  IF IsSome(raw.error)
  THEN Ok([Msg("Error", raw.id, "", None, raw.error)
             EXCEPT !.jsonrpc = raw.jsonrpc])
  ELSE IF IsSome(raw.result)
  THEN Ok([Msg("Response", raw.id, "", raw.result, None)
             EXCEPT !.jsonrpc = raw.jsonrpc])
  ELSE IF IsSome(raw.method)
  THEN IF raw.id = None
       THEN Ok([Msg("Notification", None, Unwrap(raw.method), None, None)
                  EXCEPT !.jsonrpc = raw.jsonrpc, !.params = raw.params])
       ELSE Ok([Msg("Request", raw.id, Unwrap(raw.method), None, None)
                  EXCEPT !.jsonrpc = raw.jsonrpc, !.params = raw.params])
  ELSE IF raw.id = None /\ raw.result = None /\ raw.error = None
  THEN Ok(Nil)
  ELSE Err("Invalid JSON-RPC message format")

\* Deserialize for JsonRpcMessage (serde's try_from = "JsonRpcRaw"): the
\* line is deserialized into JsonRpcRaw and converted; a failure of either
\* is a serde_json error.
Deserialize(l) ==
  IF l.kind # "object" \/ IllTyped(l) THEN Err("Json")
  ELSE LET r == TryFromRaw(Raw(l)) IN IF r.ok THEN r ELSE Err("Json")

(***************************************************************************)
(* State.                                                                  *)
(***************************************************************************)
VARIABLES
  svc,                 \* the Service S the client was built over
  next_id,             \* McpClient.next_id
  server_capabilities, \* McpClient.server_capabilities: Option<caps>
  server_info,         \* McpClient.server_info: Option<name>
  lock,                \* McpClient.service (the tokio Mutex): its holder
  pc,                  \* each task's position in its operation
  op,                  \* each task's operation in progress
  req_id,              \* the id of the request the task built: Option<id>
  init_result,         \* initialize's local `result` (and the reply's id)
  calls,               \* service.call invocations of the task's operation
  rx,                  \* the one-shot receiver the task awaits: Option<slot>
  inbox,               \* what that one-shot channel holds: Option<message>
  out,                 \* the operation that returned in the last step
  sent,                \* log of the messages the client handed to its service
  chan,                \* the mpsc queue from the handles to the transport
  pending,             \* PendingRequests.requests: id -> one-shot sender
  tstate,              \* the transport: "open" or "closed"
  next_slot,           \* the next one-shot channel to create
  server,              \* mcp-server's Server::run: its loop and its output
  codec,               \* a conversion between message and line under way
  value,               \* a value of mcp-core or mcp-server being built
  reader               \* ByteTransport.reader, its byte source and its output

vars == << svc, next_id, server_capabilities, server_info, lock, pc, op,
           req_id, init_result, calls, rx, inbox, out, sent, chan, pending,
           tstate, next_slot, server, codec, value, reader >>

\* The variables of the client and its transport, and the others.
clientSide == << svc, next_id, server_capabilities, server_info, lock, pc, op,
                 req_id, init_result, calls, rx, inbox, out, sent, chan,
                 pending, tstate, next_slot >>
serverVars == << server, codec, value, reader >>

taskVars == << pc, op, req_id, init_result, calls >>
clientVars == << next_id, server_capabilities, server_info, lock, sent >>
transportVars == << chan, pending, tstate, next_slot >>

(***************************************************************************)
(* Outcomes of an operation.  src says where the outcome was decided:      *)
(* "gate" (the initialization test), "capability" (the capability test),   *)
(* "ready" (Service::ready), "call" (the service call failed), "reply"     *)
(* (a reply message was matched), "store" (initialize returned Ok).        *)
(***************************************************************************)
Res(k, c, m, i, s) == [kind |-> k, code |-> c, msg |-> m, rid |-> i, src |-> s]
NoRes == Res("none", 0, "", None, "none")

(***************************************************************************)
(* client.rs: the gates of the six gated operations.                       *)
(***************************************************************************)
\* McpClient::completed_initialization
completed_initialization(caps) == IsSome(caps)

\* The message of the local METHOD_NOT_FOUND error of a category.
CapabilityMessage(cat) ==
  CASE cat = "resources" -> "Server does not support 'resources' capability"
    [] cat = "tools" -> "Server does not support 'tools' capability"
    [] OTHER -> "Server does not support 'prompts' capability"

\* Variants of CapabilityAbsentResult: every operation fails, or every list
\* operation returns an empty list.
CapabilityAbsentAlwaysError(o) ==
  Res("RpcError", METHOD_NOT_FOUND, CapabilityMessage(Category(o)), None,
      "capability")
CapabilityAbsentListsEmpty(o) ==
  IF o \in ListOps
  THEN Res("EmptyList", 0, "", None, "capability")
  ELSE Res("RpcError", METHOD_NOT_FOUND, CapabilityMessage(Category(o)), None,
           "capability")

\* What a gated operation returns when its category is absent.
CapabilityAbsentResult(o) ==
  IF o \in {"list_resources", "list_tools"}
  THEN Res("EmptyList", 0, "", None, "capability")
  ELSE Res("RpcError", METHOD_NOT_FOUND, CapabilityMessage(Category(o)), None,
           "capability")

\* Variant of Gate: the initialization test is missing, and a client without
\* stored capabilities is taken to have none to test.
GateWithoutInitializationTest(o, caps) ==
  IF IsSome(caps) /\ Category(o) \notin Unwrap(caps)
  THEN CapabilityAbsentResult(o)
  ELSE NoRes

\* The gate of a gated operation: the outcome it returns locally, or NoRes
\* when it goes on to send_request.
Gate(o, caps) ==
  IF ~completed_initialization(caps)
  THEN Res("NotInitialized", 0, "", None, "gate")
  ELSE IF Category(o) \notin Unwrap(caps)
       THEN CapabilityAbsentResult(o)
       ELSE NoRes

(***************************************************************************)
(* client.rs, send_request: minting the id and matching the reply.         *)
(***************************************************************************)
\* Variant of FetchAdd: add_fetch, the value after the increment.
FetchAddNew(n) == n + 1

\* AtomicU64::fetch_add(1): the value returned (the previous one).
FetchAdd(n) == n

\* Variant of IdMatches: no id test.
IdMatchesAny(rid, counter) == TRUE

\* The id test of both reply arms: the reply's id against the counter.
IdMatches(rid, counter) == rid = Some(counter - 1)

\* Variant of GuardAcrossCall: the guard is dropped once the call is made.
GuardDroppedAtCall(t) == "free"

\* The holder of the service mutex while the call is awaited: the guard
\* lives to the end of send_request.
GuardAcrossCall(t) == t

\* Variant of HandleReply: an Error reply is taken for a message that is no
\* reply.
HandleReplyWithoutErrorArm(m, counter) ==
  CASE m.type = "Response" ->
         IF ~IdMatches(m.id, counter)
         THEN Res("UnexpectedResponse", 0, "id mismatch for JsonRpcResponse",
                  m.id, "reply")
         ELSE IF IsSome(m.error)
         THEN Res("RpcError", Unwrap(m.error).code, Unwrap(m.error).message,
                  m.id, "reply")
         ELSE IF IsSome(m.result)
         THEN IF Unwrap(m.result).good
              THEN Res("Ok", 0, "", m.id, "reply")
              ELSE Res("Serialization", 0, "", m.id, "reply")
         ELSE Res("UnexpectedResponse", 0, "missing result", m.id, "reply")
    [] OTHER ->
         Res("UnexpectedResponse", 0, "unexpected message type", m.id, "reply")

\* Variant of HandleReply: a result that does not deserialize into the typed
\* result is reported as an unexpected response.
HandleReplyCoercionUnexpected(m, counter) ==
  CASE m.type = "Response" ->
         IF ~IdMatches(m.id, counter)
         THEN Res("UnexpectedResponse", 0, "id mismatch for JsonRpcResponse",
                  m.id, "reply")
         ELSE IF IsSome(m.error)
         THEN Res("RpcError", Unwrap(m.error).code, Unwrap(m.error).message,
                  m.id, "reply")
         ELSE IF IsSome(m.result)
         THEN IF Unwrap(m.result).good
              THEN Res("Ok", 0, "", m.id, "reply")
              ELSE Res("UnexpectedResponse", 0, "invalid result", m.id, "reply")
         ELSE Res("UnexpectedResponse", 0, "missing result", m.id, "reply")
    [] m.type = "Error" ->
         IF ~IdMatches(m.id, counter)
         THEN Res("UnexpectedResponse", 0, "id mismatch for JsonRpcError",
                  m.id, "reply")
         ELSE Res("RpcError", Unwrap(m.error).code, Unwrap(m.error).message,
                  m.id, "reply")
    [] OTHER ->
         Res("UnexpectedResponse", 0, "unexpected message type", m.id, "reply")

\* The match on response_msg, with the id counter at `counter`.
HandleReply(m, counter) ==
  CASE m.type = "Response" ->
         IF ~IdMatches(m.id, counter)
         THEN Res("UnexpectedResponse", 0, "id mismatch for JsonRpcResponse",
                  m.id, "reply")
         ELSE IF IsSome(m.error)
         THEN Res("RpcError", Unwrap(m.error).code, Unwrap(m.error).message,
                  m.id, "reply")
         ELSE IF IsSome(m.result)
         THEN IF Unwrap(m.result).good
              THEN Res("Ok", 0, "", m.id, "reply")
              ELSE Res("Serialization", 0, "", m.id, "reply")
         ELSE Res("UnexpectedResponse", 0, "missing result", m.id, "reply")
    [] m.type = "Error" ->
         IF ~IdMatches(m.id, counter)
         THEN Res("UnexpectedResponse", 0, "id mismatch for JsonRpcError",
                  m.id, "reply")
         ELSE Res("RpcError", Unwrap(m.error).code, Unwrap(m.error).message,
                  m.id, "reply")
    [] OTHER ->
         Res("UnexpectedResponse", 0, "unexpected message type", m.id, "reply")

\* The map_err of a failed service call.
McpServerError(source) == Res("McpServerError", 0, source, None, "call")

\* An entry of the log of hand-offs to the service: queued says whether
\* the service accepted the message.
SentEntry(ty, i, q) == [type |-> ty, id |-> i, queued |-> q]

(***************************************************************************)
(* transport/mod.rs: the pending-request table.  Keys are the decimal      *)
(* strings of ids (an injective rendering), modelled by the ids; a value   *)
(* is the sender half of a one-shot channel, named by its slot number.     *)
(***************************************************************************)
EmptyTable == [k \in {} |-> 0]
Senders(p) == {p[k] : k \in DOMAIN p}

\* Variant of PendingInsert: an id that is pending keeps its earlier entry.
PendingInsertKeepsFirst(p, i, s) ==
  [k \in (DOMAIN p) \cup {i} |-> IF k \in DOMAIN p THEN p[k] ELSE s]

\* PendingRequests::insert: HashMap::insert replaces an entry of the key.
PendingInsert(p, i, s) ==
  [k \in (DOMAIN p) \cup {i} |-> IF k = i THEN s ELSE p[k]]

\* Variant of PendingRemove: the entry stays in the table.
PendingRemoveKeeps(p, i) == p

\* PendingRequests::respond: the table after HashMap::remove(id).
PendingRemove(p, i) == [k \in (DOMAIN p) \ {i} |-> p[k]]

\* Variant of PendingTarget: the response goes to the oldest entry.
PendingTargetOldest(p, i) ==
  IF DOMAIN p = {} THEN {}
  ELSE {p[CHOOSE k \in DOMAIN p : \A j \in DOMAIN p : k <= j]}

\* PendingRequests::respond: the senders the response is sent on.
PendingTarget(p, i) == IF i \in DOMAIN p THEN {p[i]} ELSE {}

\* Variant of PendingClear: the entries are kept.
PendingClearKeeps(p) == p

\* PendingRequests::clear
PendingClear(p) == EmptyTable

(***************************************************************************)
(* One-shot channels.  A value sent on slot s reaches the task whose       *)
(* receiver is s, if that receiver still exists; a sender dropped without  *)
(* a value makes that receiver yield RecvError.                            *)
(***************************************************************************)
\* Variant of OneshotSend: a value whose receiver is gone is taken by the
\* receivers that still wait.
OneshotSendFallsThrough(ib, S, m) ==
  LET gone == S # {} /\ \A u \in Tasks : rx[u] = None \/ Unwrap(rx[u]) \notin S
  IN  [t \in Tasks |-> IF /\ IsSome(rx[t])
                          /\ ib[t] = None
                          /\ (Unwrap(rx[t]) \in S \/ gone)
                       THEN Some(m) ELSE ib[t]]

OneshotSend(ib, S, m) ==
  [t \in Tasks |-> IF IsSome(rx[t]) /\ Unwrap(rx[t]) \in S /\ ib[t] = None
                   THEN Some(m) ELSE ib[t]]
OneshotDrop(ib, S) == OneshotSend(ib, S, RecvError)

\* The senders carried by the messages of the queue.
QueuedSenders(q) ==
  {Unwrap(q[k].response_tx) : k \in {j \in 1..Len(q) : IsSome(q[j].response_tx)}}

\* A TransportMessage.
TransportMessage(m, tx) == [message |-> m, response_tx |-> tx]

\* Variant of ChannelSend: the message overtakes those that wait in the
\* queue.
ChannelSendOvertakes(q, msg) == << msg >> \o q

\* sender.send(msg).await on the mpsc channel: msg, as one value, becomes
\* the last of the queue.
ChannelSend(q, msg) == Append(q, msg)

Request(i, m) == Msg("Request", i, m, None, None)
Notification(m) == Msg("Notification", None, m, None, None)

\* The messages passed to send directly on the handle: requests, and
\* messages of the other shapes (a notification goes through the client's
\* send_notification).
RawMessages ==
  {Request(Some(i), "raw") : i \in RawIds}
    \cup {Msg("Response", Some(1), "", Some([good |-> TRUE, caps |-> {}]), None),
          Msg("Error", Some(1), "", None,
              Some(ErrorData(INTERNAL_ERROR, PeerMessage(INTERNAL_ERROR)))),
          Nil}

\* Variant of SendMessageShape: a Response is queued like a Request.
SendMessageShapeQueuesResponse(m) ==
  CASE m.type \in {"Request", "Response"} -> "request"
    [] m.type = "Notification" -> "notification"
    [] OTHER -> "unsupported"

\* send_message: the arm of `match message` taken.
SendMessageShape(m) ==
  CASE m.type = "Request" -> "request"
    [] m.type = "Notification" -> "notification"
    [] OTHER -> "unsupported"

\* Variant of ResponseTx: a notification carries a sender too.
ResponseTxAlways(shape, slot) == Some(slot)

\* send_message: the response_tx of the TransportMessage it queues; only
\* the Request arm creates a one-shot channel (here the one of number slot).
ResponseTx(shape, slot) == IF shape = "request" THEN Some(slot) ELSE None

(***************************************************************************)
(* The record of the operation that returned in the step just taken (NoOut *)
(* when none did): the operation (or "respond", for a response the table   *)
(* took), the id of                                                        *)
(* its request, its outcome, the service calls it made, the stored         *)
(* capabilities before and after its last step, and the schedule:          *)
(* contended says another task was waiting for the service mutex when it   *)
(* returned, overtook that an older request was still unanswered in the    *)
(* pending table.                                                          *)
(***************************************************************************)
Contended(t) == \E u \in Tasks \ {t} : pc[u] = "lock"
Overtook(t) ==
  /\ IsSome(rx[t])
  /\ \E u \in Tasks \ {t} :
       /\ IsSome(rx[u]) /\ Unwrap(rx[u]) < Unwrap(rx[t])
       /\ inbox[u] = None
       /\ Unwrap(rx[u]) \in Senders(pending)

Outcome(t, o, i, r, n, aft) ==
  [op |-> o, id |-> i, res |-> r, calls |-> n,
   before |-> server_capabilities, after |-> aft, init |-> init_result[t],
   contended |-> Contended(t), overtook |-> Overtook(t)]

NoOut ==
  [op |-> "none", id |-> None, res |-> NoRes, calls |-> 0,
   before |-> None, after |-> None, init |-> None,
   contended |-> FALSE, overtook |-> FALSE]

(***************************************************************************)
(* Init: McpClient::new over a service; a started transport.               *)
(***************************************************************************)
ClientInit ==
  /\ svc \in {"transport", "generic"}
  /\ next_id = 1
  /\ server_capabilities = None
  /\ server_info = None
  /\ lock = "free"
  /\ pc = [t \in Tasks |-> "idle"]
  /\ op = [t \in Tasks |-> "none"]
  /\ req_id = [t \in Tasks |-> None]
  /\ init_result = [t \in Tasks |-> None]
  /\ calls = [t \in Tasks |-> 0]
  /\ rx = [t \in Tasks |-> None]
  /\ inbox = [t \in Tasks |-> None]
  /\ out = NoOut
  /\ sent = << >>
  /\ chan = << >>
  /\ pending = EmptyTable
  /\ tstate = "open"
  /\ next_slot = 1

\* No server runs beside the client, and no conversion is under way.
ServerIdle == [pc |-> "idle", last |-> "none", request |-> None,
               written |-> << >>, frames |-> 0, reqs |-> << >>,
               torn |-> FALSE, flushed |-> TRUE]
CodecIdle == [stage |-> "idle", msg |-> Nil, line |-> NullLine, res |-> Ok(Nil)]

\* What a call returns: a value (for a Result, Ok(v)), Err(e), or a panic.
NoValue == [status |-> "none", type |-> "none"]
Built(ty, v) == [status |-> "ok", type |-> ty, val |-> v]
Failed(ty, e) == [status |-> "err", type |-> ty, err |-> e]
Panicked(ty, e) == [status |-> "panic", type |-> ty, err |-> e]

\* No value is being built.
ValueIdle == [fn |-> "none", arg |-> [kind |-> "none"], ret |-> NoValue]

\* No bytes are read.
ReaderIdle ==
  [input |-> << >>, pos |-> 0, armed |-> {}, buffer |-> << >>,
   emitted |-> << >>, lost |-> 0, done |-> FALSE]

Init ==
  /\ ClientInit
  /\ server = ServerIdle
  /\ codec = CodecIdle
  /\ value = ValueIdle
  /\ reader = ReaderIdle

\* The operation of task t returns: its locals are gone.
Return(t) ==
  /\ pc' = [pc EXCEPT ![t] = "idle"]
  /\ op' = [op EXCEPT ![t] = "none"]
  /\ req_id' = [req_id EXCEPT ![t] = None]
  /\ init_result' = [init_result EXCEPT ![t] = None]
  /\ calls' = [calls EXCEPT ![t] = 0]

\* No initialize holds the client's exclusive borrow (&mut self).
NoExclusiveBorrow == \A u \in Tasks : op[u] # InitializeOp
\* No operation holds a shared borrow of the client (&self).
NoSharedBorrow == \A u \in Tasks : op[u] \notin GatedOps

\* The bounds on the requests of one behaviour: a task takes the service
\* mutex only while an id (and, over a transport, a one-shot channel) is
\* left for it; a task that holds the mutex has a channel reserved.
CanMint ==
  /\ next_id <= MaxId
  /\ svc = "transport" => next_slot <= MaxSlots
Reserved == IF \E u \in Tasks : pc[u] = "ready" THEN 1 ELSE 0

(***************************************************************************)
(* client.rs: list_resources .. get_prompt up to the call of send_request. *)
(***************************************************************************)
GatedCall(t, o) ==
  /\ pc[t] = "idle"
  /\ NoExclusiveBorrow
  /\ LET g == Gate(o, server_capabilities) IN
       IF g # NoRes
       THEN /\ out' = Outcome(t, o, None, g, 0, server_capabilities)
            /\ UNCHANGED taskVars
       ELSE /\ pc' = [pc EXCEPT ![t] = "lock"]
            /\ op' = [op EXCEPT ![t] = o]
            /\ UNCHANGED << req_id, init_result, calls >>
            /\ out' = NoOut
  /\ UNCHANGED << svc, rx, inbox >>
  /\ UNCHANGED clientVars
  /\ UNCHANGED transportVars
  /\ UNCHANGED serverVars

\* client.rs: initialize up to the call of send_request: no gate.
InitializeCall(t) ==
  /\ pc[t] = "idle"
  /\ NoExclusiveBorrow
  /\ NoSharedBorrow
  /\ pc' = [pc EXCEPT ![t] = "lock"]
  /\ op' = [op EXCEPT ![t] = InitializeOp]
  /\ UNCHANGED << req_id, init_result, calls, svc, rx, inbox >>
  /\ out' = NoOut
  /\ UNCHANGED clientVars
  /\ UNCHANGED transportVars
  /\ UNCHANGED serverVars

(***************************************************************************)
(* client.rs, send_request.                                                *)
(***************************************************************************)
\* Dropping the MutexGuard at the end of send_request.
Release(t) == IF lock = t THEN "free" ELSE lock

\* self.service.lock().await
SendRequestLock(t) ==
  /\ pc[t] = "lock"
  /\ lock = "free"
  /\ CanMint
  /\ lock' = t
  /\ pc' = [pc EXCEPT ![t] = "ready"]
  /\ UNCHANGED << svc, next_id, server_capabilities, server_info, op,
                  req_id, init_result, calls, rx, inbox, sent >>
  /\ out' = NoOut
  /\ UNCHANGED transportVars
  /\ UNCHANGED serverVars

\* service.ready() fails: Error::NotReady, before any id is minted.  The
\* McpService over a transport handle is always ready.
SendRequestNotReady(t) ==
  /\ pc[t] = "ready"
  /\ svc = "generic"
  /\ out' = Outcome(t, op[t], None, Res("NotReady", 0, "", None, "ready"), 0,
                    server_capabilities)
  /\ Return(t)
  /\ lock' = Release(t)
  /\ UNCHANGED << svc, next_id, server_capabilities, server_info, rx, inbox,
                  sent >>
  /\ UNCHANGED transportVars
  /\ UNCHANGED serverVars

\* fetch_add, building the request and service.call(request): over a
\* transport handle the call runs send_message, which queues the request
\* with a fresh one-shot sender, or fails when the queue's receiver is gone.
SendRequestCall(t) ==
  /\ pc[t] = "ready"
  /\ LET i == FetchAdd(next_id)
         m == Method(op[t])
         open == svc = "generic" \/ tstate = "open"
     IN  /\ next_id' = next_id + 1
         /\ sent' = Append(sent, SentEntry("Request", Some(i), open))
         /\ IF open
            THEN /\ pc' = [pc EXCEPT ![t] = "await"]
                 /\ req_id' = [req_id EXCEPT ![t] = Some(i)]
                 /\ calls' = [calls EXCEPT ![t] = 1]
                 /\ lock' = GuardAcrossCall(t)
                 /\ UNCHANGED << op, init_result >>
                 /\ out' = NoOut
            ELSE /\ Return(t)
                 /\ lock' = Release(t)
                 /\ out' = Outcome(t, op[t], Some(i),
                                   McpServerError("ChannelClosed"), 1,
                                   server_capabilities)
         /\ IF svc = "transport" /\ open
            THEN /\ chan' = ChannelSend(chan, TransportMessage(
                                     Request(Some(i), m),
                                     ResponseTx(SendMessageShape(Request(Some(i), m)),
                                                next_slot)))
                 /\ rx' = [rx EXCEPT ![t] = Some(next_slot)]
                 /\ next_slot' = next_slot + 1
            ELSE UNCHANGED << chan, rx, next_slot >>
  /\ UNCHANGED << svc, server_capabilities, server_info, inbox, pending,
                  tstate >>
  /\ UNCHANGED serverVars

\* Variant of CapsAfterRequest: the capabilities are stored at once.
CapsStoredAfterRequest(old, caps) == Some(caps)

\* server_capabilities when initialize's send_request has returned Ok: the
\* result is held in a local until the notification has been sent.
CapsAfterRequest(old, caps) == old

\* Variant of CapsAfterReturn: a failed request ends the session.
CapsClearedAfterReturn(old, r) == IF r.kind = "Ok" THEN old ELSE None

\* server_capabilities when send_request returns r to the caller: it takes
\* &self and assigns no field.
CapsAfterReturn(old, r) == old

\* The end of send_request with outcome r (m: the reply, when there is one).
\* initialize goes on when r is Ok; every other case returns r to the caller.
Finish(t, r, m) ==
  /\ lock' = Release(t)
  /\ rx' = [rx EXCEPT ![t] = None]
  /\ inbox' = [inbox EXCEPT ![t] = None]
  /\ IF op[t] = InitializeOp /\ r.kind = "Ok"
     THEN /\ pc' = [pc EXCEPT ![t] = "notify"]
          /\ init_result' = [init_result EXCEPT ![t] =
                              Some([caps |-> Unwrap(m.result).caps, rid |-> m.id])]
          /\ server_capabilities' =
               CapsAfterRequest(server_capabilities, Unwrap(m.result).caps)
          /\ UNCHANGED << op, req_id, calls >>
          /\ out' = NoOut
     ELSE /\ Return(t)
          /\ out' = Outcome(t, op[t], req_id[t], r, calls[t],
                            CapsAfterReturn(server_capabilities, r))
          /\ server_capabilities' = CapsAfterReturn(server_capabilities, r)
  /\ UNCHANGED << svc, next_id, server_info, sent >>
  /\ UNCHANGED transportVars

\* The call over a transport handle resolves: the one-shot receiver yields
\* the reply, or RecvError (mapped to ChannelClosed) when the sender is gone.
SendRequestReply(t) ==
  /\ pc[t] = "await"
  /\ svc = "transport"
  /\ IsSome(inbox[t])
  /\ LET m == Unwrap(inbox[t]) IN
       Finish(t, IF m = RecvError THEN McpServerError("ChannelClosed")
                 ELSE HandleReply(m, next_id), m)
  /\ UNCHANGED serverVars

\* tower's Timeout elapses first: the call's future, and with it the
\* one-shot receiver, is dropped; nothing is removed from the pending table.
\* The Timeout polls the call before its timer, so a call whose one-shot
\* channel has resolved is not timed out.
SendRequestTimeout(t) ==
  /\ pc[t] = "await"
  /\ svc = "transport"
  /\ inbox[t] = None
  /\ Finish(t, McpServerError("Elapsed"), Nil)
  /\ UNCHANGED serverVars

\* The result payloads a reply to operation o can carry: one that
\* deserializes into the operation's result type (for initialize, with the
\* server's capabilities) and one that does not.
Payloads(o) ==
  IF o = InitializeOp
  THEN {[good |-> TRUE, caps |-> c] : c \in CapsChoices}
         \cup {[good |-> FALSE, caps |-> {}]}
  ELSE {[good |-> TRUE, caps |-> {}], [good |-> FALSE, caps |-> {}]}

\* Any message a Service<JsonRpcMessage> may return for a call.
ServiceReplies(o) ==
  LET ids == {None} \cup {Some(k) : k \in 1..MaxId} IN
    {Msg("Response", i, "", Some(r), None) : i \in ids, r \in Payloads(o)}
      \cup {Msg("Response", i, "", None, Some(ErrorData(c, PeerMessage(c)))) :
              i \in ids, c \in ErrorCodes}
      \cup {Msg("Response", i, "", None, None) : i \in ids}
      \cup {Msg("Error", i, "", None, Some(ErrorData(c, PeerMessage(c)))) :
              i \in ids, c \in ErrorCodes}
      \cup {Request(Some(1), "ping"), Notification("ping"), Nil}

\* The call over any other service resolves with a message.
ServiceReturn(t, m) ==
  /\ pc[t] = "await"
  /\ svc = "generic"
  /\ Finish(t, HandleReply(m, next_id), m)
  /\ UNCHANGED serverVars

\* The call over any other service fails.
ServiceError(t) ==
  /\ pc[t] = "await"
  /\ svc = "generic"
  /\ Finish(t, McpServerError("service"), Nil)
  /\ UNCHANGED serverVars

(***************************************************************************)
(* client.rs, initialize after its send_request returned Ok.               *)
(***************************************************************************)
\* server_capabilities once send_notification has returned Ok.
CapsAfterNotify(old, caps) == Some(caps)

\* send_notification("notifications/initialized"): the service is called
\* with the notification; `queued` says whether the call succeeded.  No id
\* is minted.  Over a transport handle the call is send_message's
\* Notification arm: the message is queued without a one-shot channel and
\* Ok(Nil) returned at once, which send_notification turns into Ok(()).
InitializeNotify(t, queued) ==
  /\ pc[t] = "notify"
  /\ IF svc = "transport" THEN queued = (tstate = "open") ELSE TRUE
  /\ sent' = Append(sent, SentEntry("Notification", None, queued))
  /\ IF queued
     THEN /\ pc' = [pc EXCEPT ![t] = "store"]
          /\ calls' = [calls EXCEPT ![t] = @ + 1]
          /\ UNCHANGED << op, req_id, init_result >>
          /\ out' = NoOut
     ELSE /\ Return(t)
          /\ out' = Outcome(t, op[t], req_id[t],
                            McpServerError(IF svc = "transport"
                                           THEN "ChannelClosed" ELSE "service"),
                            calls[t] + 1, server_capabilities)
  /\ IF svc = "transport" /\ queued
     THEN LET n == Notification("notifications/initialized") IN
            chan' = ChannelSend(chan, TransportMessage(
                                  n, ResponseTx(SendMessageShape(n), next_slot)))
     ELSE chan' = chan
  /\ UNCHANGED << svc, next_id, server_capabilities, server_info, lock, rx,
                  inbox, pending, tstate, next_slot >>
  /\ UNCHANGED serverVars

\* send_notification: service.ready() fails (Error::NotReady).
InitializeNotifyNotReady(t) ==
  /\ pc[t] = "notify"
  /\ svc = "generic"
  /\ Return(t)
  /\ out' = Outcome(t, op[t], req_id[t], Res("NotReady", 0, "", None, "ready"),
                    calls[t], server_capabilities)
  /\ UNCHANGED << svc, rx, inbox >>
  /\ UNCHANGED clientVars
  /\ UNCHANGED transportVars
  /\ UNCHANGED serverVars

\* self.server_capabilities = ..; self.server_info = ..; Ok(result)
InitializeStore(t) ==
  /\ pc[t] = "store"
  /\ LET result == Unwrap(init_result[t])
         caps == CapsAfterNotify(server_capabilities, result.caps)
     IN  /\ server_capabilities' = caps
         /\ out' = Outcome(t, op[t], req_id[t],
                           Res("Ok", 0, "", result.rid, "store"), calls[t], caps)
  /\ server_info' = Some("server")
  /\ Return(t)
  /\ UNCHANGED << svc, next_id, lock, rx, inbox, sent >>
  /\ UNCHANGED transportVars
  /\ UNCHANGED serverVars

(***************************************************************************)
(* transport/mod.rs: send_message called directly on a clone of the        *)
(* handle, with the message m.                                             *)
(***************************************************************************)
HandleSend(t, m) ==
  /\ pc[t] = "idle"
  /\ svc = "transport"
  /\ IF SendMessageShape(m) = "unsupported"
     THEN /\ UNCHANGED << chan, rx, next_slot, taskVars >>
          /\ out' = Outcome(t, RawOp, m.id,
                            Res("TransportError", 0, "UnsupportedMessage", None,
                                "call"),
                            0, server_capabilities)
     ELSE /\ next_slot + Reserved <= MaxSlots
          /\ IF tstate = "open"
             THEN /\ chan' = ChannelSend(chan, TransportMessage(
                                          m, ResponseTx(SendMessageShape(m),
                                                        next_slot)))
                  /\ rx' = [rx EXCEPT ![t] = Some(next_slot)]
                  /\ next_slot' = next_slot + 1
                  /\ pc' = [pc EXCEPT ![t] = "recv"]
                  /\ op' = [op EXCEPT ![t] = RawOp]
                  /\ req_id' = [req_id EXCEPT ![t] = m.id]
                  /\ UNCHANGED << init_result, calls >>
                  /\ out' = NoOut
             ELSE /\ UNCHANGED << chan, rx, next_slot, taskVars >>
                  /\ out' = Outcome(t, RawOp, m.id,
                                    Res("TransportError", 0, "ChannelClosed",
                                        None, "call"),
                                    0, server_capabilities)
  /\ UNCHANGED << svc, inbox, pending, tstate >>
  /\ UNCHANGED clientVars
  /\ UNCHANGED serverVars

\* response.await of send_message resolves.
HandleRecv(t) ==
  /\ pc[t] = "recv"
  /\ IsSome(inbox[t])
  /\ LET m == Unwrap(inbox[t])
         r == IF m = RecvError
              THEN Res("TransportError", 0, "ChannelClosed", None, "call")
              ELSE Res("Reply", 0, "", m.id, "reply")
     IN  out' = Outcome(t, RawOp, req_id[t], r, 0, server_capabilities)
  /\ Return(t)
  /\ rx' = [rx EXCEPT ![t] = None]
  /\ inbox' = [inbox EXCEPT ![t] = None]
  /\ UNCHANGED svc
  /\ UNCHANGED clientVars
  /\ UNCHANGED transportVars
  /\ UNCHANGED serverVars

(***************************************************************************)
(* The transport behind the handle (stdio or SSE): one task that takes the *)
(* queued messages, registers each request's sender under its id and       *)
(* writes the message; dispatches each reply read from the peer to the     *)
(* table by id; and on close clears the table and drops the queue.         *)
(***************************************************************************)
\* The operation awaiting the reply to id i, "none" if nobody is.
OwnerOp(i) ==
  LET W == {t \in Tasks : /\ i \in DOMAIN pending
                          /\ rx[t] = Some(pending[i])}
  IN  IF W = {} THEN "none" ELSE op[CHOOSE t \in W : TRUE]

\* The replies the reader hands to the table: a parsed reply is a Response
\* with a result or an Error reply, and carries an id.  One reply stands
\* for those to an id that no request of the table carries.
TransportReplies(i, o) ==
  IF i \notin DOMAIN pending
  THEN {Msg("Error", Some(i), "", None,
            Some(ErrorData(INTERNAL_ERROR, PeerMessage(INTERNAL_ERROR))))}
  ELSE {Msg("Response", Some(i), "", Some(r), None) : r \in Payloads(o)}
         \cup {Msg("Error", Some(i), "", None, Some(ErrorData(c, PeerMessage(c)))) :
                 c \in ErrorCodes}

\* The outbound side: the head of the queue is registered and written.
ActorOutbound ==
  /\ tstate = "open"
  /\ chan # << >>
  /\ LET h == Head(chan) IN
       IF h.message.type = "Request" /\ IsSome(h.response_tx)
       THEN LET i == Unwrap(h.message.id)
                tx == Unwrap(h.response_tx)
            IN  /\ pending' = PendingInsert(pending, i, tx)
                /\ inbox' = OneshotDrop(inbox, Senders(pending) \ Senders(pending'))
       ELSE UNCHANGED << pending, inbox >>
  /\ chan' = Tail(chan)
  /\ UNCHANGED << svc, rx, tstate, next_slot >>
  /\ out' = NoOut
  /\ UNCHANGED taskVars
  /\ UNCHANGED clientVars
  /\ UNCHANGED serverVars

\* PendingRequests::respond(id, response): the entry of the id is removed
\* and the response sent on its sender; the result of the send is ignored.
\* The step is recorded when the table held the id: "Delivered" when a
\* receiver took the response, "Dropped" when the receiver was gone.
Respond(i, m) ==
  /\ pending' = PendingRemove(pending, i)
  /\ inbox' = OneshotSend(inbox, PendingTarget(pending, i), m)
  /\ out' = IF i \in DOMAIN pending
            THEN [NoOut EXCEPT
                    !.op = "respond", !.id = Some(i),
                    !.res = Res(IF inbox' # inbox THEN "Delivered" ELSE "Dropped",
                                0, "", m.id, "respond")]
            ELSE NoOut

\* The inbound side: a reply m with id i is read from the peer.
ActorInbound(i, m) ==
  /\ tstate = "open"
  /\ svc = "transport"
  /\ Respond(i, m)
  /\ UNCHANGED << svc, rx, chan, tstate, next_slot >>
  /\ UNCHANGED taskVars
  /\ UNCHANGED clientVars
  /\ UNCHANGED serverVars

\* The transport closes (child exit, EOF, a failed write, a dropped stream).
TransportClose ==
  /\ tstate = "open"
  /\ svc = "transport"
  /\ tstate' = "closed"
  /\ pending' = PendingClear(pending)
  /\ chan' = << >>
  /\ inbox' = OneshotDrop(inbox, (Senders(pending) \ Senders(pending'))
                                   \cup QueuedSenders(chan))
  /\ UNCHANGED << svc, rx, next_slot >>
  /\ out' = NoOut
  /\ UNCHANGED taskVars
  /\ UNCHANGED clientVars
  /\ UNCHANGED serverVars

(***************************************************************************)
(* The specification.                                                      *)
(***************************************************************************)
Next ==
  \/ \E t \in Tasks, o \in GatedOps : GatedCall(t, o)
  \/ \E t \in Tasks : InitializeCall(t)
  \/ \E t \in Tasks : SendRequestLock(t)
  \/ \E t \in Tasks : SendRequestNotReady(t)
  \/ \E t \in Tasks : SendRequestCall(t)
  \/ \E t \in Tasks : SendRequestReply(t)
  \/ \E t \in Tasks : SendRequestTimeout(t)
  \/ \E t \in Tasks : \E m \in ServiceReplies(op[t]) : ServiceReturn(t, m)
  \/ \E t \in Tasks : ServiceError(t)
  \/ \E t \in Tasks, q \in BOOLEAN : InitializeNotify(t, q)
  \/ \E t \in Tasks : InitializeNotifyNotReady(t)
  \/ \E t \in Tasks : InitializeStore(t)
  \/ \E t \in Tasks, m \in RawMessages : HandleSend(t, m)
  \/ \E t \in Tasks : HandleRecv(t)
  \/ ActorOutbound
  \/ \E i \in 1..MaxId : \E m \in TransportReplies(i, OwnerOp(i)) : ActorInbound(i, m)
  \/ TransportClose

Spec == Init /\ [][Next]_vars

\* A task whose one-shot channel has resolved is scheduled again.
Fairness ==
  \A t \in Tasks : WF_vars(SendRequestReply(t)) /\ WF_vars(HandleRecv(t))

\* The requests that reach the transport handle: those of initialize, under
\* the service's timeout, and those sent directly on the handle.
TransportInit == Init /\ svc = "transport"

TransportNext ==
  \/ \E t \in Tasks : InitializeCall(t)
  \/ \E t \in Tasks : SendRequestLock(t)
  \/ \E t \in Tasks : SendRequestCall(t)
  \/ \E t \in Tasks : SendRequestReply(t)
  \/ \E t \in Tasks : SendRequestTimeout(t)
  \/ \E t \in Tasks, q \in BOOLEAN : InitializeNotify(t, q)
  \/ \E t \in Tasks : InitializeStore(t)
  \/ \E t \in Tasks, m \in RawMessages : HandleSend(t, m)
  \/ \E t \in Tasks : HandleRecv(t)
  \/ ActorOutbound
  \/ \E i \in 1..MaxId : \E m \in TransportReplies(i, OwnerOp(i)) : ActorInbound(i, m)
  \/ TransportClose

FairSpec == TransportInit /\ [][TransportNext]_vars /\ Fairness

TypeOK ==
  /\ svc \in {"transport", "generic"}
  /\ next_id \in 1..(MaxId + 1)
  /\ server_capabilities \in {None} \cup {Some(c) : c \in CapsChoices}
  /\ lock \in Tasks \cup {"free"}
  /\ \A t \in Tasks :
       pc[t] \in {"idle", "lock", "ready", "await", "notify", "store", "recv"}
  /\ tstate \in {"open", "closed"}
  /\ next_slot \in 1..(MaxSlots + 1)
  /\ DOMAIN pending \subseteq 1..MaxId

(***************************************************************************)
(* The conversions between messages and lines, applied to bounded inputs.  *)
(***************************************************************************)
\* The members a line is drawn from: absent, null, a value of the field's
\* type, and a value of another type.
JsonrpcMembers == {AbsentStr, NullStr, J("string", "2.0"), J("string", "1.0")}
IdMembers == {AbsentNum, NullNum, J("number", 1), J("string", 0)}
MethodMembers == {AbsentStr, NullStr, J("string", "tools/call"), J("number", "")}
ValueMembers == {AbsentStr, NullStr, J("value", "{}")}
ErrorMembers == {AbsentErr, NullErr, J("object", ErrorData(INTERNAL_ERROR, "boom")),
                 J("string", NoErrorData)}

Lines ==
  {ObjectLine(v, i, m, p, r, e) :
     v \in JsonrpcMembers, i \in IdMembers, m \in MethodMembers,
     p \in ValueMembers, r \in ValueMembers, e \in ErrorMembers}
    \cup {OtherLine(k) : k \in {"null", "number", "notjson"}}

\* The failure text of a handler, as its error displays it.
HandlerFailures == {"boom"}

\* Variant of HandlerErrorResponse: the reply loses the id of the request.
HandlerErrorResponseNoId(id, error_msg) ==
  Msg("Response", None, "", None, Some(ErrorData(INTERNAL_ERROR, error_msg)))

\* Server::run: the JsonRpcResponse built when service.call fails.
HandlerErrorResponse(id, error_msg) ==
  Msg("Response", id, "", None, Some(ErrorData(INTERNAL_ERROR, error_msg)))

\* The messages the program builds for the wire: the client's requests and
\* notifications (client.rs: params is Some(value)); a handler's response;
\* the response the server builds when a handler fails; and the server's
\* Error reply to a frame it could not read, which has no id.
BuiltMessages ==
  {[Msg("Request", Some(i), "tools/call", None, None)
      EXCEPT !.params = Some("{}")] : i \in 1..2}
    \cup {[Msg("Notification", None, "notifications/initialized", None, None)
             EXCEPT !.params = Some("{}")]}
    \cup {Msg("Response", Some(i), "", Some("{}"), None) : i \in 1..2}
    \cup {HandlerErrorResponse(Some(i), t) : i \in 1..2, t \in HandlerFailures}
    \cup {Msg("Error", None, "", None, Some(ErrorData(c, "unreadable"))) :
            c \in {PARSE_ERROR, INVALID_REQUEST, INTERNAL_ERROR}}

CodecInit ==
  /\ ClientInit
  /\ svc = "generic"
  /\ server = ServerIdle
  /\ value = ValueIdle
  /\ reader = ReaderIdle
  /\ codec \in {[CodecIdle EXCEPT !.stage = "line", !.line = l] : l \in Lines}
                 \cup {[CodecIdle EXCEPT !.stage = "message", !.msg = m] :
                         m \in BuiltMessages}

\* serde_json::to_string of the message (write_message, and the client's
\* writer).
CodecSerialize ==
  /\ codec.stage = "message"
  /\ codec' = [codec EXCEPT !.stage = "line", !.line = Serialize(codec.msg)]
  /\ UNCHANGED << clientSide, server, value, reader >>

\* serde_json::from_str::<JsonRpcMessage> of the line.
CodecDeserialize ==
  /\ codec.stage = "line"
  /\ codec' = [codec EXCEPT !.stage = "parsed", !.res = Deserialize(codec.line)]
  /\ UNCHANGED << clientSide, server, value, reader >>

CodecNext == CodecSerialize \/ CodecDeserialize

CodecSpec == CodecInit /\ [][CodecNext]_vars

(***************************************************************************)
(* The properties of the wire codec.                                       *)
(***************************************************************************)
\* A member that is there for the parser: present and not null.
Present(j) == j.k \notin {"absent", "null"}

\* C11: a parsed line is classified by the members it has, in this order:
\* with error it is an Error reply; else with result a Response; else with
\* method a Request when it has an id and a Notification when it has none;
\* else, with none of id, method, result and error, it is Nil; every other
\* line (one with only an id) is rejected.  A member counts as present when
\* it holds a value other than null; a line that is no object, or has a
\* member of the wrong type, is rejected before it is classified.
C11_ClassifiedByPresentMembers ==
  codec.stage = "parsed" =>
    LET l == codec.line
        res == codec.res
        ty == IF res.ok THEN res.val.type ELSE "rejected"
    IN  IF l.kind # "object" \/ IllTyped(l) THEN ty = "rejected"
        ELSE /\ ty = (CASE Present(l.error) -> "Error"
                        [] ~Present(l.error) /\ Present(l.result) -> "Response"
                        [] /\ ~Present(l.error) /\ ~Present(l.result)
                           /\ Present(l.method) /\ Present(l.id) -> "Request"
                        [] /\ ~Present(l.error) /\ ~Present(l.result)
                           /\ Present(l.method) /\ ~Present(l.id) -> "Notification"
                        [] /\ ~Present(l.error) /\ ~Present(l.result)
                           /\ ~Present(l.method) /\ ~Present(l.id) -> "Nil"
                        [] OTHER -> "rejected")
             /\ ty \in {"Error", "Response", "Request"}
                  => res.val.id = DeOption(l.id)
             /\ ty \in {"Request", "Notification"}
                  => res.val.method = l.method.v

\* A line with both a result and an error has been parsed, as an Error reply.
C11_Witness ==
  /\ codec.stage = "parsed"
  /\ Present(codec.line.result)
  /\ Present(codec.line.error)
  /\ Present(codec.line.id)
  /\ codec.res.ok
  /\ codec.res.val.type = "Error"

\* C12 as stated: every message the program builds for the wire comes back
\* from parse(serialize(m)) as the same message of the same variant.
C12_BuiltMessagesRoundTrip ==
  (codec.stage = "parsed" /\ codec.msg \in BuiltMessages)
    => codec.res = Ok(codec.msg)

(***************************************************************************)
(* mcp-server/src/lib.rs: ByteTransport and Server::run.  The server owns  *)
(* its transport and its service; one task runs the loop.  server.pc is    *)
(* "next" at transport.next().await, "call" at service.call(..).await,     *)
(* "done" when run has returned Ok(()) and "failed" when it has returned   *)
(* Err.  server.last names what the latest step of the loop did,           *)
(* server.written lists the messages whose line and newline the writer has *)
(* taken, server.flushed says that the writer was flushed after the last   *)
(* of them, server.torn that a failed write may have left a part of a line *)
(* behind them.  server.frames counts the reads and server.reqs lists the  *)
(* ids of the Requests read.  The loop is one task: a step of the model is *)
(* the code from one await on its input or its service to the next.        *)
(***************************************************************************)
\* What one read yields: a line, or the failure of the read itself.
ServerFrames ==
  {ObjectLine(J("string", "2.0"), J("number", i), J("string", "tools/call"),
              J("value", "{}"), AbsentStr, AbsentErr) : i \in 1..2}
    \cup {ObjectLine(J("string", "2.0"), AbsentNum, J("string", "notifications/initialized"),
                     AbsentStr, AbsentStr, AbsentErr),
          ObjectLine(J("string", "2.0"), J("number", 1), AbsentStr, AbsentStr,
                     J("value", "{}"), AbsentErr),
          ObjectLine(J("string", "2.0"), J("number", 1), AbsentStr, AbsentStr,
                     AbsentStr, J("object", ErrorData(INTERNAL_ERROR, "boom"))),
          ObjectLine(J("string", "2.0"), AbsentNum, AbsentStr, AbsentStr,
                     AbsentStr, AbsentErr),
          ObjectLine(J("string", "2.0"), J("number", 1), AbsentStr, AbsentStr,
                     AbsentStr, AbsentErr),
          ObjectLine(AbsentStr, J("number", 1), J("string", "tools/call"),
                     AbsentStr, AbsentStr, AbsentErr),
          ObjectLine(J("string", "1.0"), J("number", 1), J("string", "tools/call"),
                     AbsentStr, AbsentStr, AbsentErr),
          OtherLine("number"), OtherLine("notjson"), OtherLine("badutf8"),
          OtherLine("ioerror")}

\* Variant of PollNext: the jsonrpc member of an object is not tested.
PollNextWithoutVersionTest(l) ==
  CASE l.kind = "ioerror" -> Err("Io")
    [] l.kind = "badutf8" -> Err("Utf8")
    [] l.kind = "notjson" -> Err("Json")
    [] l.kind \notin {"ioerror", "badutf8", "notjson", "object"} ->
         Err("InvalidMessage")
    [] OTHER -> Deserialize(l)

\* ByteTransport::poll_next on a completed read: the item of the stream.
PollNext(l) ==
  CASE l.kind = "ioerror" -> Err("Io")
    [] l.kind = "badutf8" -> Err("Utf8")
    [] l.kind = "notjson" -> Err("Json")
    [] l.kind \notin {"ioerror", "badutf8", "notjson", "object"} ->
         Err("InvalidMessage")
    [] l.kind = "object" /\ l.jsonrpc # J("string", "2.0") ->
         Err("InvalidMessage")
    [] OTHER -> Deserialize(l)

\* Variant of TransportErrorCode: every error is an internal error.
TransportErrorCodeAllInternal(e) == INTERNAL_ERROR

\* Server::run: the code of the Error reply to a TransportError.
TransportErrorCode(e) ==
  CASE e \in {"Json", "InvalidMessage"} -> PARSE_ERROR
    [] e = "Protocol" -> INVALID_REQUEST
    [] OTHER -> INTERNAL_ERROR

\* errors.rs: the Display of a TransportError (its argument left out).
TransportErrorDisplay(e) ==
  CASE e = "Io" -> "IO error"
    [] e = "Json" -> "JSON serialization error"
    [] e = "Utf8" -> "Invalid UTF-8 sequence"
    [] e = "Protocol" -> "Protocol error"
    [] OTHER -> "Invalid message format"

\* Server::run: the Error reply written for a TransportError; it has no id.
ErrorReply(e) ==
  Msg("Error", None, "", None,
      Some(ErrorData(TransportErrorCode(e), TransportErrorDisplay(e))))

\* The responses a Service<JsonRpcRequest, Response = JsonRpcResponse>
\* returns: to the id of the request, a result or an error of its own.
ServicePayloads ==
  {[result |-> Some(v), error |-> None] : v \in JsonValues}
    \cup {[result |-> None,
           error |-> Some(ErrorData(INVALID_PARAMS, "Invalid parameters"))]}
ServiceResponse(request, p) ==
  Msg("Response", request.id, "", p.result, p.error)

ServerInit ==
  /\ ClientInit
  /\ svc = "generic"
  /\ codec = CodecIdle
  /\ value = ValueIdle
  /\ reader = ReaderIdle
  /\ server = [ServerIdle EXCEPT !.pc = "next"]

\* How write_message ends: "ok", or the name of the call that fails.
WriteFailures == {"json", "newline", "flush"}
WriteOutcomes == {"ok"} \cup WriteFailures

\* Variant of ServerWrite: the loop goes on when the flush fails.
ServerWriteIgnoresFlush(s, msg, w) ==
  CASE w = "ok" -> [s EXCEPT !.pc = "next", !.written = Append(@, msg)]
    [] w = "flush" -> [s EXCEPT !.pc = "next", !.written = Append(@, msg),
                                !.flushed = FALSE]
    [] OTHER -> [s EXCEPT !.pc = "failed", !.torn = TRUE]

\* write_message(msg) and the test of its result in run: write_all of the
\* line, write_all of the newline and flush, each of which may fail; on a
\* failure run returns Err(ServerError::Transport(Io)).
ServerWrite(s, msg, w) ==
  CASE w = "ok" -> [s EXCEPT !.pc = "next", !.written = Append(@, msg)]
    [] w = "flush" -> [s EXCEPT !.pc = "failed", !.written = Append(@, msg),
                                !.flushed = FALSE]
    [] OTHER -> [s EXCEPT !.pc = "failed", !.torn = TRUE]

\* Variant of Ignored: a message that is no Request is answered with an
\* Error reply.
IgnoredWithReply(s) ==
  [s EXCEPT !.last = "ignored", !.written = Append(@, ErrorReply("Protocol"))]

\* Server::run: the arm of Response, Notification, Nil and Error: continue.
Ignored(s) == [s EXCEPT !.last = "ignored"]

\* transport.next().await yields Some(item): a message is dispatched (a
\* Request goes to the service, every other message is ignored), an error
\* is answered with an Error reply.
ServerRead(l, w) ==
  /\ server.pc = "next"
  /\ server.frames < MaxFrames
  /\ LET item == PollNext(l)
         s == [server EXCEPT !.frames = @ + 1, !.request = None]
     IN  server' =
           IF item.ok
           THEN IF item.val.type = "Request"
                THEN [s EXCEPT !.pc = "call", !.last = "request",
                               !.request = Some(item.val),
                               !.reqs = Append(@, Unwrap(item.val.id))]
                ELSE Ignored(s)
           ELSE ServerWrite([s EXCEPT !.last = "transport_error"],
                            ErrorReply(item.err), w)
  /\ UNCHANGED << clientSide, codec, value, reader >>

\* transport.next().await yields None (EOF): run returns Ok(()).
ServerEof ==
  /\ server.pc = "next"
  /\ server' = [server EXCEPT !.pc = "done", !.last = "eof", !.request = None]
  /\ UNCHANGED << clientSide, codec, value, reader >>

\* service.call(request).await returns Ok(resp): resp is written.
ServerCallOk(p, w) ==
  /\ server.pc = "call"
  /\ server' = ServerWrite([server EXCEPT !.last = "handler_ok"],
                           ServiceResponse(Unwrap(server.request), p), w)
  /\ UNCHANGED << clientSide, codec, value, reader >>

\* service.call(request).await returns Err(e): the response built from the
\* request's id and the error's text is written.
ServerCallErr(error_msg, w) ==
  /\ server.pc = "call"
  /\ server' = ServerWrite([server EXCEPT !.last = "handler_err"],
                           HandlerErrorResponse(Unwrap(server.request).id,
                                                error_msg),
                           w)
  /\ UNCHANGED << clientSide, codec, value, reader >>

ServerNext ==
  \/ \E l \in ServerFrames, w \in WriteOutcomes : ServerRead(l, w)
  \/ ServerEof
  \/ \E p \in ServicePayloads, w \in WriteOutcomes : ServerCallOk(p, w)
  \/ \E e \in HandlerFailures, w \in WriteOutcomes : ServerCallErr(e, w)

ServerSpec == ServerInit /\ [][ServerNext]_vars

(***************************************************************************)
(* The properties of the server.                                           *)
(***************************************************************************)
\* C20: a failing handler does not end the loop.  The step in which
\* service.call returns an error writes exactly one message, the Response
\* with the id of the request, no result and the error INTERNAL_ERROR with
\* the failure's text, and leaves the server at the read of the next frame,
\* which it can then take; run returns at that step only when the write of
\* that response itself fails.
C20_HandlerFailureKeepsLoop ==
  /\ [][(server.pc = "call" /\ server'.last = "handler_err")
          => \/ /\ server'.pc = "next"
                /\ Len(server'.written) = Len(server.written) + 1
                /\ SubSeq(server'.written, 1, Len(server.written)) = server.written
                /\ LET w == server'.written[Len(server'.written)] IN
                     /\ w.type = "Response"
                     /\ w.id = Unwrap(server.request).id
                     /\ w.result = None
                     /\ IsSome(w.error)
                     /\ Unwrap(w.error).code = INTERNAL_ERROR
                     /\ Unwrap(w.error).message \in HandlerFailures
             \/ /\ server'.pc = "failed"
                /\ ~server'.flushed \/ server'.torn]_vars
  /\ []((server.last = "handler_err" /\ server.pc # "failed")
          => /\ server.pc = "next"
             /\ server.frames < MaxFrames
                  => ENABLED (\E l \in ServerFrames : ServerRead(l, "ok")))

\* A handler failed on the first request, its error response was written,
\* and the server then read and answered a second request.
C20_Witness ==
  /\ Len(server.written) = 2
  /\ server.written[1] \in {HandlerErrorResponse(Some(i), t) :
                              i \in 1..2, t \in HandlerFailures}
  /\ server.written[2].type = "Response"
  /\ IsSome(server.written[2].result)
  /\ server.last = "handler_ok"
  /\ server.pc = "next"

(***************************************************************************)
(* The properties of the client.                                           *)
(***************************************************************************)

\* C2: a reply that a client operation accepts (turns into a typed value or
\* an RpcError, or tries to deserialize) carries the id of the request this
\* same operation issued, whatever ids the service answers with; the result
\* initialize holds while it sends its notification came with its own id.
C2_AcceptedReplyHasOwnId ==
  /\ (/\ out.op \in GatedOps \cup {InitializeOp}
      /\ out.res.src \in {"reply", "store"}
      /\ out.res.kind \in {"Ok", "RpcError", "Serialization"})
       => out.res.rid = out.id
  /\ \A t \in Tasks :
       IsSome(init_result[t]) => Unwrap(init_result[t]).rid = req_id[t]

\* A service that may answer with any id: the second request of the client
\* was answered and the answer accepted.
C2_Witness ==
  /\ svc = "generic"
  /\ out.op \in GatedOps
  /\ out.res.src = "reply"
  /\ out.res.kind = "Ok"
  /\ out.id = Some(2)
  /\ out.res.rid = Some(2)

\* C5: while no capabilities are stored (the Created state), a gated
\* operation that returns fails with NotInitialized, and the step hands
\* nothing to the service or the transport and mints no id.
C5_CreatedFailsNotInitialized ==
  [][ (server_capabilities = None /\ out'.op \in GatedOps)
        => /\ out'.res.kind = "NotInitialized"
           /\ out'.calls = 0
           /\ sent' = sent
           /\ chan' = chan
           /\ next_id' = next_id ]_vars

C5_Witness ==
  /\ out.op = "call_tool"
  /\ out.before = None
  /\ out.res.kind = "NotInitialized"
  /\ sent = << >>

\* C6: on an initialized client whose capabilities lack the category of a
\* gated operation, the operation answers locally, handing nothing to the
\* service or the transport: list_resources and list_tools return an empty
\* list; read_resource, call_tool, list_prompts and get_prompt fail with
\* RpcError, code METHOD_NOT_FOUND (-32601) and the message
\* "Server does not support '<category>' capability".
C6_AbsentCategoryAnswersLocally ==
  [][ (/\ IsSome(server_capabilities)
       /\ out'.op \in GatedOps
       /\ Category(out'.op) \notin Unwrap(server_capabilities))
        => /\ out'.calls = 0
           /\ sent' = sent
           /\ chan' = chan
           /\ next_id' = next_id
           /\ out'.op \in {"list_resources", "list_tools"}
                => out'.res.kind = "EmptyList"
           /\ out'.op \in {"read_resource", "call_tool", "list_prompts",
                           "get_prompt"}
                => /\ out'.res.kind = "RpcError"
                   /\ out'.res.code = -32601
                   /\ out'.res.code = METHOD_NOT_FOUND
           /\ out'.op = "read_resource"
                => out'.res.msg = "Server does not support 'resources' capability"
           /\ out'.op = "call_tool"
                => out'.res.msg = "Server does not support 'tools' capability"
           /\ out'.op \in {"list_prompts", "get_prompt"}
                => out'.res.msg = "Server does not support 'prompts' capability"
    ]_vars

\* A server with the tools capability only: read_resource failed locally.
C6_Witness ==
  /\ out.op = "read_resource"
  /\ out.before = Some({"tools"})
  /\ out.res.kind = "RpcError"
  /\ out.res.code = METHOD_NOT_FOUND
  /\ out.calls = 0

\* C7 as stated: every list operation, list_prompts included, returns an
\* empty list when its category is absent, and only the non-list operations
\* fail with METHOD_NOT_FOUND.
C7_EveryListReturnsEmpty ==
  (/\ IsSome(out.before)
   /\ out.op \in GatedOps
   /\ Category(out.op) \notin Unwrap(out.before))
    => /\ out.op \in ListOps => out.res.kind = "EmptyList"
       /\ out.res.kind = "RpcError" => out.op \notin ListOps

\* C7, amended: when its category is absent, a gated operation returns an
\* empty list exactly if it is list_resources or list_tools; list_prompts
\* fails with METHOD_NOT_FOUND as the non-list operations do; none of them
\* calls the service.
C7_ListResourcesAndToolsReturnEmpty ==
  (/\ IsSome(out.before)
   /\ out.op \in GatedOps
   /\ Category(out.op) \notin Unwrap(out.before))
    => /\ out.calls = 0
       /\ out.id = None
       /\ out.res.kind \in {"EmptyList", "RpcError"}
       /\ out.res.kind = "EmptyList" <=> out.op \in {"list_resources", "list_tools"}
       /\ out.res.kind = "RpcError" => out.res.code = METHOD_NOT_FOUND

\* A server without the prompts capability: list_prompts failed locally.
C7_Witness ==
  /\ out.op = "list_prompts"
  /\ out.before = Some({"tools"})
  /\ out.res.kind = "RpcError"
  /\ out.res.code = METHOD_NOT_FOUND
  /\ out.calls = 0

\* C9: the requests the client hands to its service carry the ids 1, 2, 3,
\* ... in the order of the hand-offs; a notification carries no id and
\* consumes none: the counter is one more than the number of requests.
C9_RequestIdsCountFromOne ==
  LET R == SelectSeq(sent, LAMBDA e : e.type = "Request") IN
    /\ \A k \in 1..Len(R) : R[k].id = Some(k)
    /\ \A k \in 1..Len(sent) : sent[k].type = "Notification" => sent[k].id = None
    /\ next_id = Len(R) + 1

\* After a handshake (initialize, notifications/initialized) the next
\* request has id 2.
C9_Witness ==
  /\ Len(sent) = 3
  /\ sent[1] = SentEntry("Request", Some(1), TRUE)
  /\ sent[2] = SentEntry("Notification", None, TRUE)
  /\ sent[3] = SentEntry("Request", Some(2), TRUE)
  /\ \E t \in Tasks : op[t] = "call_tool" /\ req_id[t] = Some(2)

\* C4 as stated: with two tasks calling request operations concurrently,
\* another task can advance the id counter between a task's request and the
\* matching of its reply: while one request awaits its reply, a task waiting
\* to issue the next one (an id being left for it) can go on.
C4_CounterAdvancesInBetween ==
  \A t, u \in Tasks :
    (pc[t] = "await" /\ pc[u] = "lock" /\ CanMint) => ENABLED SendRequestLock(u)

\* C4, amended: with two or more tasks calling request operations
\* concurrently the last-issued-id test does not break: at most one request
\* of the client is between the minting of its id and the matching of its
\* reply, the counter stays one past that id meanwhile, and a reply carrying
\* the caller's own id is never rejected for an id mismatch.
C4_OwnIdReplyNeverRejected ==
  /\ Cardinality({t \in Tasks : pc[t] \in {"ready", "await"}}) <= 1
  /\ \A t \in Tasks : pc[t] = "await" => req_id[t] = Some(next_id - 1)
  /\ (/\ out.res.kind = "UnexpectedResponse"
      /\ out.res.msg \in {"id mismatch for JsonRpcResponse",
                          "id mismatch for JsonRpcError"})
       => out.res.rid # out.id

\* A reply with the caller's own id was accepted while another task was
\* waiting for the service mutex.
C4_Witness ==
  /\ out.contended
  /\ out.op \in GatedOps
  /\ out.res.src = "reply"
  /\ out.res.kind = "Ok"
  /\ out.res.rid = out.id

\* C8 as stated: when notifications/initialized is about to be handed to the
\* service, the client already holds the capabilities of the reply, and an
\* initialize that fails there leaves them stored.
C8_StoredBeforeNotification ==
  /\ \A t \in Tasks :
       pc[t] = "notify" => server_capabilities = Some(Unwrap(init_result[t]).caps)
  /\ (/\ out.op = InitializeOp
      /\ IsSome(out.init)
      /\ out.res.kind # "Ok")
       => out.after = Some(Unwrap(out.init).caps)

\* C8, amended: when the initialize request succeeds, the client first
\* sends notifications/initialized and only then stores the server's
\* capabilities and info: the stored capabilities change only in the step
\* that follows the accepted hand-off of the notification, and an initialize
\* that does not return Ok leaves capabilities and info as they were.
C8_NotificationBeforeStore ==
  [][ /\ (server_capabilities' # server_capabilities \/ server_info' # server_info)
        => /\ sent' = sent
           /\ Len(sent) > 0
           /\ sent[Len(sent)] = SentEntry("Notification", None, TRUE)
           /\ out'.op = InitializeOp
           /\ out'.res.kind = "Ok"
           /\ server_capabilities' = Some(Unwrap(out'.init).caps)
      /\ (out'.op = InitializeOp /\ out'.res.kind # "Ok")
        => /\ server_capabilities' = server_capabilities
           /\ server_info' = server_info
    ]_vars

\* A first initialize returned Ok and stored the capabilities of its reply.
C8_Witness ==
  /\ out.op = InitializeOp
  /\ out.res.kind = "Ok"
  /\ out.before = None
  /\ out.after = Some({"tools"})
  /\ server_capabilities = Some({"tools"})
  /\ sent = << SentEntry("Request", Some(1), TRUE),
               SentEntry("Notification", None, TRUE) >>

\* C10: initialize on a session that already holds capabilities is not
\* carried out: it hands no request to the service, and when it returns the
\* stored capabilities are the ones held before.
C10_InitializeOnlyInCreated ==
  /\ \A t \in Tasks :
       (op[t] = InitializeOp /\ IsSome(server_capabilities)) => calls[t] = 0
  /\ (out.op = InitializeOp /\ IsSome(out.before))
       => (out.calls = 0 /\ out.after = out.before)

C1_EveryRequestGetsOneOutcome ==
  /\ [](\A t \in Tasks :
          IsSome(rx[t]) =>
            /\ tstate = "closed" => IsSome(inbox[t])
            /\ inbox[t] = None <=>
                 Unwrap(rx[t]) \in Senders(pending) \cup QueuedSenders(chan))
  /\ [](\A t \in Tasks : IsSome(inbox[t]) => IsSome(rx[t]))
  /\ \A t \in Tasks : IsSome(inbox[t]) ~> (rx[t] = None)
  /\ [](\A t, u \in Tasks :
          IsSome(rx[t]) => /\ Unwrap(rx[t]) < next_slot
                           /\ t # u => rx[t] # rx[u])
  /\ [][\A t \in Tasks :
          rx'[t] # rx[t]
            => \/ rx'[t] = None /\ inbox'[t] = None
               \/ /\ rx[t] = None
                  /\ rx'[t] = Some(next_slot)
                  /\ next_slot' = next_slot + 1]_vars

\* The transport closed while a request was registered: its caller got the
\* channel error as its one outcome.
C1_Witness ==
  /\ tstate = "closed"
  /\ out.op = RawOp
  /\ out.res.kind = "TransportError"
  /\ out.res.msg = "ChannelClosed"
  /\ \A t \in Tasks : rx[t] = None

(***************************************************************************)
(* The properties of the transport handle and of the pending-request       *)
(* table.                                                                  *)
(***************************************************************************)

\* C18: send_message called with a Response, an Error reply or Nil fails
\* with UnsupportedMessage, whether the transport is open or closed, and the
\* step queues nothing, creates no one-shot channel and leaves the table
\* alone.
C18_OtherShapesAreUnsupported ==
  [][\A t \in Tasks, m \in RawMessages :
       (m.type \in {"Response", "Error", "Nil"} /\ HandleSend(t, m))
         => /\ out'.op = RawOp
            /\ out'.res.kind = "TransportError"
            /\ out'.res.msg = "UnsupportedMessage"
            /\ chan' = chan
            /\ pending' = pending
            /\ rx' = rx
            /\ inbox' = inbox
            /\ next_slot' = next_slot
            /\ pc' = pc]_vars

\* A send of an unsupported message has failed while requests were waiting
\* in the queue.
C18_Witness ==
  /\ out.op = RawOp
  /\ out.res.msg = "UnsupportedMessage"
  /\ chan # << >>

\* C15: respond(id, response) on an id of the table removes exactly that
\* entry and sends the response on exactly its sender: the task holding the
\* receiver of that slot gets the response, no other task gets anything,
\* and the other entries stay as they were.  On an id the table does not
\* hold it changes neither the table nor any one-shot channel, and nothing
\* is returned or raised.
C15_RespondTouchesOnlyItsEntry ==
  [][\A i \in 1..MaxId : \A m \in TransportReplies(i, OwnerOp(i)) :
       ActorInbound(i, m)
         => IF i \in DOMAIN pending
            THEN /\ DOMAIN pending' = (DOMAIN pending) \ {i}
                 /\ \A j \in DOMAIN pending' : pending'[j] = pending[j]
                 /\ \A t \in Tasks :
                      IF rx[t] = Some(pending[i]) /\ inbox[t] = None
                      THEN inbox'[t] = Some(m)
                      ELSE inbox'[t] = inbox[t]
                 /\ UNCHANGED << rx, chan, tstate >>
            ELSE /\ UNCHANGED << pending, inbox, rx, chan, tstate >>
                 /\ out' = NoOut]_vars

\* A response was delivered to the waiter of its id while the request of
\* another id stayed in the table.
C15_Witness ==
  /\ out.op = "respond"
  /\ out.res.kind = "Delivered"
  /\ DOMAIN pending # {}
  /\ \E t \in Tasks : IsSome(inbox[t]) /\ Unwrap(inbox[t]).id = out.id

\* C17: a reply whose caller has given up (its request timed out, so the
\* receiver of its slot is gone while its entry is still in the table) is
\* dropped without a trace: respond removes the entry and the failed send
\* is ignored, so no task receives anything, no task's operation ends or
\* changes, no error is returned, the other entries stay, and the step
\* leaves nothing behind but the smaller table, so that no later request
\* can come by the reply.
C17_LateReplyIsDropped ==
  [][\A i \in 1..MaxId : \A m \in TransportReplies(i, OwnerOp(i)) :
       (/\ ActorInbound(i, m)
        /\ i \in DOMAIN pending
        /\ \A t \in Tasks : rx[t] # Some(pending[i]))
         => /\ inbox' = inbox
            /\ UNCHANGED << pc, op, req_id, init_result, calls, rx, lock >>
            /\ out'.op = "respond"
            /\ out'.res.kind = "Dropped"
            /\ pending' = [j \in (DOMAIN pending) \ {i} |-> pending[j]]
            /\ UNCHANGED << chan, tstate, next_slot, next_id, sent,
                            server_capabilities >>]_vars

\* The reply to a timed-out request was dropped while a later request was
\* waiting for its own reply.
C17_Witness ==
  /\ out.op = "respond"
  /\ out.res.kind = "Dropped"
  /\ \E t \in Tasks :
       /\ pc[t] = "await"
       /\ IsSome(rx[t])
       /\ inbox[t] = None
       /\ Unwrap(req_id[t]) > Unwrap(out.id)

\* C13: the close of the transport wakes every request pending at that
\* moment.  The close step leaves the table empty and resolves the one-shot
\* channel of every waiter (registered in the table or still in the queue)
\* with a receive error; while the transport is closed the table stays
\* empty and every waiter's channel is resolved; a waiter that finds the
\* receive error completes with ChannelClosed; and every waiter does
\* complete.
C13_CloseWakesEveryWaiter ==
  /\ [][(tstate = "open" /\ tstate' = "closed")
          => /\ pending' = EmptyTable
             /\ \A t \in Tasks :
                  (IsSome(rx[t]) /\ inbox[t] = None)
                    => inbox'[t] = Some(RecvError)]_vars
  /\ [](tstate = "closed"
          => /\ pending = EmptyTable
             /\ \A t \in Tasks : IsSome(rx[t]) => IsSome(inbox[t]))
  /\ [][\A t \in Tasks :
          (inbox[t] = Some(RecvError) /\ rx'[t] = None)
            => /\ out'.op = op[t]
               /\ out'.id = req_id[t]
               /\ out'.res.kind \in {"TransportError", "McpServerError"}
               /\ out'.res.msg = "ChannelClosed"]_vars
  /\ \A t \in Tasks : (tstate = "closed" /\ IsSome(rx[t])) ~> (rx[t] = None)

\* The transport has closed on two waiting requests, one of them a request
\* of the client, and both have been woken.
C13_Witness ==
  /\ tstate = "closed"
  /\ \A t \in Tasks : IsSome(rx[t]) /\ inbox[t] = Some(RecvError)
  /\ \E t \in Tasks : pc[t] = "await"

\* C14 as stated: once the transport is closed, a send of a Request or of a
\* Notification on its handle fails with NotConnected.
C14_ClosedSendFailsNotConnected ==
  [][/\ \A t \in Tasks, m \in RawMessages :
          (tstate = "closed" /\ m.type = "Request" /\ HandleSend(t, m))
            => out'.res.msg = "NotConnected"
     /\ \A t \in Tasks :
          (tstate = "closed" /\ svc = "transport" /\ InitializeNotify(t, FALSE))
            => out'.res.msg = "NotConnected"]_vars

\* C16 as stated: the table holds no entry for a request whose caller has
\* been timed out; every entry of the table is the entry of a request some
\* caller still awaits.
C16_TimedOutEntryIsReleased ==
  \A i \in DOMAIN pending : \E t \in Tasks : rx[t] = Some(pending[i])

\* C19 as stated: when the send of a notification has resolved, the
\* notification's bytes have been handed to the writer: once initialize is
\* past send_notification, no notification waits in the outbound queue.
C19_ResolvesOnlyWhenWritten ==
  \A t \in Tasks :
    (svc = "transport" /\ pc[t] = "store")
      => \A k \in 1..Len(chan) : chan[k].message.type # "Notification"

\* C19, amended: the send of a Notification on an open transport resolves in
\* the very step that places it in the outbound queue, with no one-shot
\* channel and waiting for no reply; the notification may still be in the
\* queue when the caller goes on.  A queued notification carries no sender,
\* and the transport registers no table entry when it takes one from the
\* queue.
C19_NotificationResolvesWhenQueued ==
  /\ [][\A t \in Tasks :
          (svc = "transport" /\ tstate = "open" /\ InitializeNotify(t, TRUE))
            => /\ pc'[t] = "store"
               /\ Len(chan') = Len(chan) + 1
               /\ chan'[Len(chan')].message.type = "Notification"
               /\ chan'[Len(chan')].response_tx = None
               /\ UNCHANGED << rx, inbox, pending, next_slot, next_id >>]_vars
  /\ [](\A k \in 1..Len(chan) :
          chan[k].message.type = "Notification" => chan[k].response_tx = None)
  /\ [][(chan # << >> /\ Head(chan).message.type = "Notification"
           /\ chan' = Tail(chan) /\ tstate' = "open")
          => pending' = pending /\ inbox' = inbox]_vars

\* initialize has returned Ok while its notification was still in the
\* outbound queue.
C19_Witness ==
  /\ out.op = InitializeOp
  /\ out.res.kind = "Ok"
  /\ svc = "transport"
  /\ \E k \in 1..Len(chan) : chan[k].message.type = "Notification"

\* A line holding a well-formed Request with id i.
RequestLine(i) ==
  ObjectLine(J("string", "2.0"), J("number", i), J("string", "tools/call"),
             J("value", "{}"), AbsentStr, AbsentErr)

\* C21: a frame that is not JSON is answered with exactly one message, the
\* Error reply with no id (id: None, so the line has no id member) and code
\* PARSE_ERROR; the handler is not called, and the server stays at the read
\* of the next frame, where it can take a Request, which it then can answer.
\* run returns at that step only when the write of the Error reply fails.
C21_BadJsonGetsParseError ==
  /\ [][\A wo \in WriteOutcomes :
          ServerRead(OtherLine("notjson"), wo)
            => IF wo = "ok"
               THEN /\ Len(server'.written) = Len(server.written) + 1
                    /\ SubSeq(server'.written, 1, Len(server.written))
                         = server.written
                    /\ LET w == server'.written[Len(server'.written)] IN
                         /\ w.type = "Error"
                         /\ w.id = None
                         /\ Serialize(w).id = AbsentNum
                         /\ Unwrap(w.error).code = PARSE_ERROR
                    /\ server'.pc = "next"
                    /\ server'.request = None
               ELSE /\ server'.pc = "failed"
                    /\ ~server'.flushed \/ server'.torn]_vars
  /\ []((server.last = "transport_error" /\ server.pc = "next"
           /\ server.frames < MaxFrames)
          => \A i \in 1..2 : ENABLED ServerRead(RequestLine(i), "ok"))
  /\ [](server.pc = "call"
          => /\ IsSome(server.request)
             /\ \A p \in ServicePayloads : ENABLED ServerCallOk(p, "ok"))

\* After a frame that failed to parse (TransportError::Json) and its Error
\* reply, a Request was read and its Response written.
C21_Witness ==
  /\ Len(server.written) = 2
  /\ server.written[1] = ErrorReply("Json")
  /\ server.written[2].type = "Response"
  /\ server.written[2].id = Some(2)
  /\ server.frames = 2

\* The ids of the Responses among the written messages, in their order.
IsResponse(m) == m.type = "Response"
ResponseIds(w) ==
  LET r == SelectSeq(w, IsResponse) IN [k \in 1..Len(r) |-> Unwrap(r[k].id)]

\* C22: the loop is sequential.  Whenever the server is about to read a
\* frame, or has returned at the end of its input, the Responses written
\* are, one for one and in the same order, those to the Requests read (the
\* services of the model answer with the id of the request), each written
\* whole, newline included, and flushed.  While a handler runs, the same
\* holds of all Requests but the one it runs for, so no handler starts
\* before the Response of the Request before it is out.  Only a failed
\* write leaves a Request without its whole Response, and then run has
\* returned.
C22_OneResponsePerRequestInOrder ==
  LET ids == ResponseIds(server.written)
      n == Len(ids)
  IN  /\ server.pc \in {"next", "done"}
           => ids = server.reqs /\ server.flushed /\ ~server.torn
      /\ server.pc = "call"
           => /\ server.reqs = Append(ids, Unwrap(Unwrap(server.request).id))
              /\ server.flushed
              /\ ~server.torn
      /\ server.pc = "failed"
           => /\ ~server.flushed \/ server.torn
              /\ n <= Len(server.reqs)
              /\ Len(server.reqs) <= n + 1
              /\ SubSeq(server.reqs, 1, n) = SubSeq(ids, 1, n)
      /\ (~server.flushed \/ server.torn) => server.pc = "failed"

\* Request 2, then a frame that is not answered by a Response, then
\* Request 1 were read, and the two Responses are out in that order.
C22_Witness ==
  /\ server.reqs = << 2, 1 >>
  /\ ResponseIds(server.written) = << 2, 1 >>
  /\ Len(server.written) = 3
  /\ server.written[2].type = "Error"
  /\ server.pc = "next"

(***************************************************************************)
(* Values of mcp-server and mcp-core, and the functions that build them.   *)
(* A value is built outside any server loop or client operation: the       *)
(* input is drawn at the start and each step applies one function.         *)
(***************************************************************************)
\* errors.rs: RouterError, and handler.rs: ResourceError; each carries a
\* String.
RouterMessages == {"", "echo", "Unknown resource error"}
RouterNotFound == {"ToolNotFound", "ResourceNotFound", "PromptNotFound"}
RouterVariants ==
  {"MethodNotFound", "InvalidParams", "Internal"} \cup RouterNotFound
RouterError(v, m) == [kind |-> "RouterError", variant |-> v, msg |-> m]
RouterErrors == {RouterError(v, m) : v \in RouterVariants, m \in RouterMessages}
ResourceError(v, m) == [kind |-> "ResourceError", variant |-> v, msg |-> m]
ResourceErrors ==
  {ResourceError(v, m) : v \in {"ExecutionError", "NotFound"},
                         m \in RouterMessages}

\* Variant of ErrorDataFrom: a not-found failure is reported as an unknown
\* method.
ErrorDataFromNotFoundIsMethod(err) ==
  [code |-> CASE err.variant = "InvalidParams" -> INVALID_PARAMS
              [] err.variant = "Internal" -> INTERNAL_ERROR
              [] OTHER -> METHOD_NOT_FOUND,
   message |-> err.msg,
   data |-> None]

\* errors.rs: impl From<RouterError> for ErrorData.
ErrorDataFrom(err) ==
  [code |-> CASE err.variant = "MethodNotFound" -> METHOD_NOT_FOUND
              [] err.variant = "InvalidParams" -> INVALID_PARAMS
              [] err.variant = "Internal" -> INTERNAL_ERROR
              [] err.variant = "ToolNotFound" -> INVALID_REQUEST
              [] err.variant = "ResourceNotFound" -> INVALID_REQUEST
              [] err.variant = "PromptNotFound" -> INVALID_REQUEST,
   message |-> err.msg,
   data |-> None]

\* errors.rs: impl From<ResourceError> for RouterError.
RouterErrorFrom(err) ==
  IF err.variant = "NotFound"
  THEN RouterError("ResourceNotFound", err.msg)
  ELSE RouterError("Internal", "Unknown resource error")

(***************************************************************************)
(* Properties of the values.                                               *)
(***************************************************************************)
\* C23: converting a RouterError gives INVALID_REQUEST (-32600) for
\* ToolNotFound, ResourceNotFound and PromptNotFound, INVALID_PARAMS (-32602)
\* for InvalidParams, INTERNAL_ERROR (-32603) for Internal and
\* METHOD_NOT_FOUND (-32601) for MethodNotFound, with the error's message
\* unchanged and no data; converting a ResourceError gives ResourceNotFound
\* for NotFound and Internal for every other one.
C23_RouterErrorMapping ==
  /\ value.fn = "ErrorData::from" =>
       LET err == value.arg
           d == value.ret.val
       IN  /\ err.variant \in RouterNotFound => d.code = -32600
           /\ err.variant = "InvalidParams" => d.code = -32602
           /\ err.variant = "Internal" => d.code = -32603
           /\ err.variant = "MethodNotFound" => d.code = -32601
           /\ d.message = err.msg
           /\ d.data = None
  /\ value.fn = "RouterError::from" =>
       IF value.arg.variant = "NotFound"
       THEN value.ret.val = RouterError("ResourceNotFound", value.arg.msg)
       ELSE value.ret.val.variant = "Internal"

\* A PromptNotFound carrying a text has been converted.
C23_Witness ==
  /\ value.fn = "ErrorData::from"
  /\ value.arg = RouterError("PromptNotFound", "echo")
  /\ value.ret.val.code = INVALID_REQUEST
  /\ value.ret.val.message = "echo"

(***************************************************************************)
(* Properties of the client's reply handling.                              *)
(***************************************************************************)
\* A reply that reports an error: an Error message, or a Response with an
\* error object.
IsErrorReply(m) ==
  \/ m.type = "Error"
  \/ m.type = "Response" /\ IsSome(m.error)

\* The replies a call of operation o can resolve with, over either service.
CallReplies(o) ==
  ServiceReplies(o)
    \cup UNION {TransportReplies(i, o) : i \in 1..MaxId}

\* The call of task t resolves with message m.
CallResolves(t, m) ==
  \/ ServiceReturn(t, m)
  \/ inbox[t] = Some(m) /\ SendRequestReply(t)

\* C24: when the call of a request resolves with an error reply (an Error
\* message, or a Response carrying an error object) that bears the request's
\* id, the operation returns RpcError with the code and the message of the
\* reply's error object, and so no typed value.
C24_ErrorReplyGivesRpcError ==
  [][ \A t \in Tasks :
        pc[t] = "await" =>
          \A m \in CallReplies(op[t]) :
            (IsErrorReply(m) /\ m.id = req_id[t] /\ CallResolves(t, m))
              => /\ out'.op = op[t]
                 /\ out'.id = req_id[t]
                 /\ out'.res.kind = "RpcError"
                 /\ out'.res.code = Unwrap(m.error).code
                 /\ out'.res.msg = Unwrap(m.error).message ]_vars

\* call_tool over the transport got the peer's Error reply to its own id.
C24_Witness ==
  /\ svc = "transport"
  /\ out.op = "call_tool"
  /\ IsSome(out.id)
  /\ out.res.rid = out.id
  /\ out.res.src = "reply"
  /\ out.res.kind = "RpcError"
  /\ out.res.code = INVALID_REQUEST
  /\ out.res.msg = PeerMessage(INVALID_REQUEST)

\* A successful reply whose result does not deserialize into the typed
\* result of the operation.
IsUncoercibleReply(m) ==
  /\ m.type = "Response"
  /\ m.error = None
  /\ IsSome(m.result)
  /\ ~Unwrap(m.result).good

\* C25 as stated: a successful reply bearing the request's id whose result
\* cannot be coerced into the typed result makes the operation fail with
\* UnexpectedResponse.
C25_CoercionFailureIsUnexpectedResponse ==
  [][ \A t \in Tasks :
        pc[t] = "await" =>
          \A m \in CallReplies(op[t]) :
            (IsUncoercibleReply(m) /\ m.id = req_id[t] /\ CallResolves(t, m))
              => out'.res.kind = "UnexpectedResponse" ]_vars

\* C25, amended: a successful reply bearing the request's id whose result
\* cannot be coerced into the typed result makes the operation fail with the
\* Serialization error (the serde_json error of from_value), which is neither
\* RpcError nor UnexpectedResponse, and no typed value is returned.
C25_CoercionFailureIsSerialization ==
  [][ \A t \in Tasks :
        pc[t] = "await" =>
          \A m \in CallReplies(op[t]) :
            (IsUncoercibleReply(m) /\ m.id = req_id[t] /\ CallResolves(t, m))
              => /\ out'.op = op[t]
                 /\ out'.id = req_id[t]
                 /\ out'.res.kind = "Serialization"
                 /\ out'.after = server_capabilities ]_vars

\* list_tools got a reply to its own id whose result has the wrong shape.
C25_Witness ==
  /\ out.op = "list_tools"
  /\ IsSome(out.id)
  /\ out.res.rid = out.id
  /\ out.res.src = "reply"
  /\ out.res.kind = "Serialization"

(***************************************************************************)
(* Properties of the outbound queue.                                       *)
(***************************************************************************)
\* The messages the client's own send calls queued, in the order of the
\* calls, and those of them that wait in the queue, as (type, id).
QueuedEntry(e) == e.queued
QueuedByClient ==
  LET q == SelectSeq(sent, QueuedEntry)
  IN  [k \in 1..Len(q) |-> << q[k].type, q[k].id >>]
SentByClient(h) == h.message.method # "raw"
WaitingOfClient ==
  LET w == SelectSeq(chan, SentByClient)
  IN  [k \in 1..Len(w) |-> << w[k].message.type, w[k].message.id >>]
IsSuffix(a, b) ==
  /\ Len(a) <= Len(b)
  /\ a = SubSeq(b, Len(b) - Len(a) + 1, Len(b))

\* C26: the messages a producer sends one after another through the handle
\* wait in the queue in the order of its send calls, each as one whole
\* message with its own one-shot sender or none; the request of initialize
\* is the send just before its notifications/initialized, and every later
\* request of the client comes after both.
C26_QueuedInSendOrder ==
  /\ svc = "transport" => IsSuffix(WaitingOfClient, QueuedByClient)
  /\ \A k \in 1..Len(chan) :
       /\ chan[k].message.type \in {"Request", "Notification"}
       /\ chan[k].message.jsonrpc = "2.0"
       /\ IsSome(chan[k].response_tx) <=> chan[k].message.type = "Request"
  /\ \A t \in Tasks :
       /\ pc[t] = "notify" =>
            /\ Len(sent) >= 1
            /\ sent[Len(sent)] = SentEntry("Request", req_id[t], TRUE)
       /\ pc[t] = "store" =>
            /\ Len(sent) >= 2
            /\ sent[Len(sent) - 1] = SentEntry("Request", req_id[t], TRUE)
            /\ sent[Len(sent)] = SentEntry("Notification", None, TRUE)

\* notifications/initialized still waits in the queue when the next request
\* of the client is queued behind it.
C26_Witness ==
  /\ svc = "transport"
  /\ Len(chan) = 2
  /\ chan[1].message.method = "notifications/initialized"
  /\ chan[2].message.type = "Request"
  /\ chan[2].message.id = Some(2)
  /\ QueuedByClient =
       << << "Request", Some(1) >>, << "Notification", None >>,
          << "Request", Some(2) >> >>

(***************************************************************************)
(* transport/mod.rs: the capacity of the outbound queue.  send_message     *)
(* takes a tokio mpsc::Sender, the sending half of a bounded channel: its  *)
(* send suspends the caller while the channel is full and fails once the   *)
(* receiver is gone.  The capacity (at least 1) is fixed where the channel *)
(* is created.  In the behaviours above the queue stays below any such     *)
(* capacity; here tasks send requests on clones of the handle until the    *)
(* queue is full.                                                          *)
(***************************************************************************)
\* The capacity of the channel.
ChannelCapacity == 1
\* The number of one-shot channels send_message creates in one behaviour.
MaxSends == 4

\* Variant of HasCapacity: a channel that is never full.
HasCapacityAlways(q) == TRUE

\* The semaphore of the channel has a permit left.
HasCapacity(q) == Len(q) < ChannelCapacity

QueueInit == Init /\ svc = "transport"

\* send_message(sender, Request(i)): the one-shot channel is created, and
\* sender.send(msg).await queues the message, suspends, or fails.
QueueSend(t, i) ==
  /\ pc[t] = "idle"
  /\ svc = "transport"
  /\ next_slot <= MaxSends
  /\ LET m == Request(Some(i), "raw") IN
       IF tstate # "open"
       THEN /\ UNCHANGED << chan, rx, next_slot, taskVars >>
            /\ out' = Outcome(t, RawOp, m.id,
                              Res("TransportError", 0, "ChannelClosed", None,
                                  "call"),
                              0, server_capabilities)
       ELSE /\ rx' = [rx EXCEPT ![t] = Some(next_slot)]
            /\ next_slot' = next_slot + 1
            /\ op' = [op EXCEPT ![t] = RawOp]
            /\ req_id' = [req_id EXCEPT ![t] = m.id]
            /\ UNCHANGED << init_result, calls >>
            /\ out' = NoOut
            /\ IF HasCapacity(chan)
               THEN /\ chan' = ChannelSend(chan, TransportMessage(
                                       m, ResponseTx(SendMessageShape(m),
                                                     next_slot)))
                    /\ pc' = [pc EXCEPT ![t] = "recv"]
               ELSE /\ chan' = chan
                    /\ pc' = [pc EXCEPT ![t] = "send"]
  /\ UNCHANGED << svc, inbox, pending, tstate >>
  /\ UNCHANGED clientVars
  /\ UNCHANGED serverVars

\* The suspended sender.send(msg).await resumes: a permit is free and the
\* message is queued, or the receiver is gone and the send fails.
QueueSendResumes(t) ==
  /\ pc[t] = "send"
  /\ tstate = "closed" \/ HasCapacity(chan)
  /\ IF tstate = "closed"
     THEN /\ Return(t)
          /\ rx' = [rx EXCEPT ![t] = None]
          /\ chan' = chan
          /\ out' = Outcome(t, RawOp, req_id[t],
                            Res("TransportError", 0, "ChannelClosed", None,
                                "call"),
                            0, server_capabilities)
     ELSE /\ LET m == Request(req_id[t], "raw") IN
               chan' = ChannelSend(chan, TransportMessage(
                                     m, ResponseTx(SendMessageShape(m),
                                                   Unwrap(rx[t]))))
          /\ pc' = [pc EXCEPT ![t] = "recv"]
          /\ UNCHANGED << op, req_id, init_result, calls, rx >>
          /\ out' = NoOut
  /\ UNCHANGED << svc, inbox, pending, tstate, next_slot >>
  /\ UNCHANGED clientVars
  /\ UNCHANGED serverVars

QueueNext ==
  \/ \E t \in Tasks, i \in RawIds : QueueSend(t, i)
  \/ \E t \in Tasks : QueueSendResumes(t)
  \/ \E t \in Tasks : HandleRecv(t)
  \/ ActorOutbound
  \/ \E i \in 1..MaxId : \E m \in TransportReplies(i, OwnerOp(i)) : ActorInbound(i, m)
  \/ TransportClose

QueueSpec == QueueInit /\ [][QueueNext]_vars

\* The tasks whose send is suspended.
Suspended == {t \in Tasks : pc[t] = "send"}

F32(tenths) == [nan |-> FALSE, tenths |-> tenths]
NaN == [nan |-> TRUE, tenths |-> 0]
Priorities == {F32(-5), F32(0), F32(5), F32(10), F32(15), NaN}

\* (0.0..=1.0).contains(&priority): false of NaN.
InUnitRange(p) == ~p.nan /\ 0 <= p.tenths /\ p.tenths <= 10

Annotations(audience, priority, timestamp) ==
  [audience |-> audience, priority |-> priority, timestamp |-> timestamp]

\* content.rs: Annotations::for_resource, with its assert!.
for_resource(priority, timestamp) ==
  IF InUnitRange(priority)
  THEN Built("Annotations", Annotations(None, Some(priority), Some(timestamp)))
  ELSE Panicked("Annotations", "Priority must be between 0.0 and 1.0")

\* Url::parse of the uris of the model: the last path segment of a uri that
\* parses, None for one that does not.
Uris == {"file:///test.txt", "str:///", "not a uri"}
UrlParse(uri) ==
  CASE uri = "file:///test.txt" -> Some("test.txt")
    [] uri = "str:///" -> Some("")
    [] OTHER -> None

MimeTypes == {"text", "blob", "invalid", ""}
default_mime_type == "text"

\* Variant of MimeTypeOrDefault: a supplied value is kept whatever it is.
MimeTypeKept(mime_type) ==
  IF IsSome(mime_type) THEN Unwrap(mime_type) ELSE default_mime_type

\* resource.rs: the match on mime_type of new, with_uri and with_mime_type.
MimeTypeOrDefault(mime_type) ==
  IF IsSome(mime_type) /\ Unwrap(mime_type) \in {"text", "blob"}
  THEN Unwrap(mime_type)
  ELSE default_mime_type

Resource(uri, name, mime_type, annotations) ==
  [uri |-> uri, name |-> name, description |-> None, mime_type |-> mime_type,
   annotations |-> Some(annotations)]

\* resource.rs: Resource::new
ResourceNew(uri, mime_type, name) ==
  IF UrlParse(uri) = None
  THEN Failed("Resource", "Invalid URI")
  ELSE Built("Resource",
             Resource(uri,
                      IF IsSome(name) THEN Unwrap(name)
                      ELSE Unwrap(UrlParse(uri)),
                      MimeTypeOrDefault(mime_type),
                      for_resource(F32(0), "now").val))

\* resource.rs: Resource::with_uri
ResourceWithUri(uri, name, priority, mime_type) ==
  IF UrlParse(uri) = None
  THEN Failed("Resource", "Invalid URI")
  ELSE LET a == for_resource(priority, "now") IN
         IF a.status = "panic"
         THEN Panicked("Resource", a.err)
         ELSE Built("Resource",
                    Resource(uri, name, MimeTypeOrDefault(mime_type), a.val))

\* resource.rs: Resource::with_priority, mark_active and with_mime_type.
ResourceWithPriority(self, priority) ==
  [self EXCEPT !.annotations =
     Some([Unwrap(@) EXCEPT !.priority = Some(priority)])]
ResourceMarkActive(self) == ResourceWithPriority(self, F32(10))
ResourceWithMimeType(self, mime_type) ==
  [self EXCEPT !.mime_type = MimeTypeOrDefault(Some(mime_type))]

\* content.rs: Content::text and Content::image.
ContentText(text) == [type |-> "text", text |-> text, annotations |-> None]
ContentImage(data, mime_type) ==
  [type |-> "image", data |-> data, mime_type |-> mime_type,
   annotations |-> None]

\* content.rs: Content::resource
ContentResource(resource) ==
  [type |-> "resource", resource |-> resource, annotations |-> None]

\* Variant of ContentWithAudience: the annotations are built anew.
ContentWithAudienceAnew(self, audience) ==
  [self EXCEPT !.annotations = Some(Annotations(Some(audience), None, None))]

\* content.rs: Content::with_audience
ContentWithAudience(self, audience) ==
  [self EXCEPT !.annotations =
     Some(IF IsSome(@)
          THEN [Unwrap(@) EXCEPT !.audience = Some(audience)]
          ELSE Annotations(Some(audience), None, None))]

\* content.rs: Content::with_priority
ContentWithPriority(self, priority) ==
  IF ~InUnitRange(priority)
  THEN Panicked("Content", "Priority must be between 0.0 and 1.0")
  ELSE Built("Content",
             [self EXCEPT !.annotations =
                Some(IF IsSome(@)
                     THEN [Unwrap(@) EXCEPT !.priority = Some(priority)]
                     ELSE Annotations(None, Some(priority), None))])

\* content.rs: Content::unannotated
ContentUnannotated(self) ==
  CASE self.type = "text" -> ContentText(self.text)
    [] self.type = "image" -> ContentImage(self.data, self.mime_type)
    [] OTHER -> ContentResource(self.resource)

\* content.rs: Content::audience
AudienceOf(v) ==
  IF IsSome(v.annotations) THEN Unwrap(v.annotations).audience ELSE None

\* The priority a Resource or a Content holds.
PriorityOf(v) ==
  IF IsSome(v.annotations) THEN Unwrap(v.annotations).priority ELSE None

(***************************************************************************)
(* mcp-core: prompt.rs.  A string whose characters matter is a sequence of *)
(* one-character strings.                                                  *)
(***************************************************************************)
\* The alphabet of the standard base64 engine: the character of value k is
\* the (k+1)-th.
Base64Alphabet ==
  << "A", "B", "C", "D", "E", "F", "G", "H", "I", "J", "K", "L", "M",
     "N", "O", "P", "Q", "R", "S", "T", "U", "V", "W", "X", "Y", "Z",
     "a", "b", "c", "d", "e", "f", "g", "h", "i", "j", "k", "l", "m",
     "n", "o", "p", "q", "r", "s", "t", "u", "v", "w", "x", "y", "z",
     "0", "1", "2", "3", "4", "5", "6", "7", "8", "9", "+", "/" >>
IsBase64Symbol(c) == \E k \in 1..64 : Base64Alphabet[k] = c
Base64Value(c) == (CHOOSE k \in 1..64 : Base64Alphabet[k] = c) - 1

\* Variant of Base64Decodes: padding and trailing bits are not looked at.
Base64DecodesLoosely(data) ==
  \A k \in 1..Len(data) : IsBase64Symbol(data[k]) \/ data[k] = "="

\* BASE64_STANDARD.decode(&data) returns Ok: the length is a multiple of 4,
\* at most the last two characters are the padding "=", every other one is
\* a symbol of the alphabet, and the bits of the last symbol that belong to
\* no byte are zero.
Base64Decodes(data) ==
  LET n == Len(data)
      pad == IF n >= 2 /\ data[n] = "=" /\ data[n - 1] = "=" THEN 2
             ELSE IF n >= 1 /\ data[n] = "=" THEN 1
             ELSE 0
      m == n - pad
  IN  /\ n % 4 = 0
      /\ \A k \in 1..m : IsBase64Symbol(data[k])
      /\ pad = 1 => Base64Value(data[m]) % 4 = 0
      /\ pad = 2 => Base64Value(data[m]) % 16 = 0

\* str::starts_with
StartsWith(s, prefix) ==
  /\ Len(prefix) <= Len(s)
  /\ SubSeq(s, 1, Len(prefix)) = prefix

ImagePrefix == << "i", "m", "a", "g", "e", "/" >>

\* prompt.rs: PromptMessage::new_image
NewImage(role, data, mime_type, annotations) ==
  IF ~Base64Decodes(data)
  THEN Failed("PromptMessage",
              [variant |-> "InvalidParameters",
               msg |-> "Image data must be valid base64"])
  ELSE IF ~StartsWith(mime_type, ImagePrefix)
  THEN Failed("PromptMessage",
              [variant |-> "InvalidParameters",
               msg |-> "MIME type must be a valid image type (e.g. image/jpeg)"])
  ELSE Built("PromptMessage",
             [role |-> role,
              content |-> [type |-> "image",
                           image |-> [data |-> data, mime_type |-> mime_type,
                                      annotations |-> annotations]]])

\* The data and mime type arguments of the model, by what the base64 engine
\* and starts_with make of them.
DecodableData ==
  {<< >>,
   << "a", "G", "k", "=" >>,
   << "a", "A", "=", "=" >>,
   << "a", "G", "V", "5" >>}
UndecodableData ==
  {<< "a", "G", "k" >>,
   << "a", "$", "k", "=" >>,
   << "a", "G", "=", "k" >>,
   << "a", "R", "=", "=" >>,
   << "a", "=", "=", "=" >>}
ImageMimeTypes ==
  {<< "i", "m", "a", "g", "e", "/", "p", "n", "g" >>,
   << "i", "m", "a", "g", "e", "/" >>}
OtherMimeTypes ==
  {<< >>,
   << "i", "m", "a", "g", "e" >>,
   << "I", "M", "A", "G", "E", "/", "p", "n", "g" >>,
   << "t", "e", "x", "t", "/", "i", "m", "a", "g", "e", "/" >>}
Roles == {"user", "assistant"}
NewImageArgs ==
  {[kind |-> "PromptMessage::new_image", role |-> r, data |-> d,
    mime_type |-> m, annotations |-> a] :
     r \in Roles, d \in DecodableData \cup UndecodableData,
     m \in ImageMimeTypes \cup OtherMimeTypes,
     a \in {None, Some(Annotations(Some(<< "user" >>), Some(F32(5)), None))}}

(***************************************************************************)
(* Building a value: the arguments of a conversion or a constructor are    *)
(* drawn at the start, and each step calls one function on them or on the  *)
(* value built so far.  `value` holds the last call: its name, its         *)
(* arguments (with `self` for a builder) and what it returned.             *)
(***************************************************************************)
ResourceNewArgs ==
  {[kind |-> "Resource::new", uri |-> u, mime_type |-> m, name |-> n] :
     u \in Uris, m \in {None} \cup {Some(x) : x \in MimeTypes},
     n \in {None, Some("res")}}
ResourceWithUriArgs ==
  {[kind |-> "Resource::with_uri", uri |-> u, name |-> "res", priority |-> p,
    mime_type |-> m] :
     u \in Uris, p \in Priorities,
     m \in {None} \cup {Some(x) : x \in MimeTypes}}
ContentArgs ==
  {[kind |-> "Content::text", text |-> "hello"],
   [kind |-> "Content::image", data |-> "data", mime_type |-> "image/png"],
   [kind |-> "Content::resource",
    resource |-> [uri |-> "file:///test.txt", mime_type |-> Some("text"),
                  text |-> "hello"]]}

\* The inputs a value is built from.
ValueInputs ==
  RouterErrors \cup ResourceErrors \cup ResourceNewArgs
    \cup ResourceWithUriArgs \cup ContentArgs \cup NewImageArgs

ValueInit ==
  /\ ClientInit
  /\ svc = "generic"
  /\ server = ServerIdle
  /\ codec = CodecIdle
  /\ reader = ReaderIdle
  /\ value \in {[ValueIdle EXCEPT !.fn = "input", !.arg = a] : a \in ValueInputs}

\* The function named by the arguments is about to be called.
Called(kind) == value.fn = "input" /\ value.arg.kind = kind
\* A value of the type has been built.
Holds(ty) == value.ret.status = "ok" /\ value.ret.type = ty

\* RouterError::from(err) of a ResourceError (the `?` of a resource handler).
ApplyRouterErrorFrom ==
  /\ Called("ResourceError")
  /\ value' = [fn |-> "RouterError::from", arg |-> value.arg,
               ret |-> Built("RouterError", RouterErrorFrom(value.arg))]
  /\ UNCHANGED << clientSide, server, codec, reader >>

\* ErrorData::from(err) of a RouterError, one given or one just converted.
ApplyErrorDataFrom ==
  /\ Called("RouterError") \/ Holds("RouterError")
  /\ LET err == IF value.fn = "input" THEN value.arg ELSE value.ret.val
     IN  value' = [fn |-> "ErrorData::from", arg |-> err,
                   ret |-> Built("ErrorData", ErrorDataFrom(err))]
  /\ UNCHANGED << clientSide, server, codec, reader >>

ApplyResourceNew ==
  /\ Called("Resource::new")
  /\ value' = [fn |-> "Resource::new", arg |-> value.arg,
               ret |-> ResourceNew(value.arg.uri, value.arg.mime_type,
                                   value.arg.name)]
  /\ UNCHANGED << clientSide, server, codec, reader >>

ApplyResourceWithUri ==
  /\ Called("Resource::with_uri")
  /\ value' = [fn |-> "Resource::with_uri", arg |-> value.arg,
               ret |-> ResourceWithUri(value.arg.uri, value.arg.name,
                                       value.arg.priority, value.arg.mime_type)]
  /\ UNCHANGED << clientSide, server, codec, reader >>

ApplyResourceWithPriority(priority) ==
  /\ Holds("Resource")
  /\ value' = [fn |-> "Resource::with_priority",
               arg |-> [kind |-> "builder", self |-> value.ret.val,
                        priority |-> priority],
               ret |-> Built("Resource",
                             ResourceWithPriority(value.ret.val, priority))]
  /\ UNCHANGED << clientSide, server, codec, reader >>

ApplyResourceMarkActive ==
  /\ Holds("Resource")
  /\ value' = [fn |-> "Resource::mark_active",
               arg |-> [kind |-> "builder", self |-> value.ret.val],
               ret |-> Built("Resource", ResourceMarkActive(value.ret.val))]
  /\ UNCHANGED << clientSide, server, codec, reader >>

ApplyResourceWithMimeType(mime_type) ==
  /\ Holds("Resource")
  /\ value' = [fn |-> "Resource::with_mime_type",
               arg |-> [kind |-> "builder", self |-> value.ret.val,
                        mime_type |-> mime_type],
               ret |-> Built("Resource",
                             ResourceWithMimeType(value.ret.val, mime_type))]
  /\ UNCHANGED << clientSide, server, codec, reader >>

\* The arguments of the last with_audience and of the last with_priority
\* call of the chain of calls that built the value; none after a
\* constructor.
NoSetterCalls == [audience |-> None, priority |-> None]
SetterCalls ==
  IF value.fn \in {"Content::with_audience", "Content::with_priority"}
  THEN value.arg.last ELSE NoSetterCalls

ApplyContentNew ==
  /\ Called("Content::text") \/ Called("Content::image")
       \/ Called("Content::resource")
  /\ value' = [fn |-> value.arg.kind, arg |-> value.arg,
               ret |-> Built("Content",
                             CASE value.arg.kind = "Content::text" ->
                                    ContentText(value.arg.text)
                               [] value.arg.kind = "Content::image" ->
                                    ContentImage(value.arg.data,
                                                 value.arg.mime_type)
                               [] OTHER -> ContentResource(value.arg.resource))]
  /\ UNCHANGED << clientSide, server, codec, reader >>

ApplyContentWithAudience(audience) ==
  /\ Holds("Content")
  /\ value' = [fn |-> "Content::with_audience",
               arg |-> [kind |-> "builder", self |-> value.ret.val,
                        audience |-> audience,
                        last |-> [SetterCalls EXCEPT !.audience = Some(audience)]],
               ret |-> Built("Content",
                             ContentWithAudience(value.ret.val, audience))]
  /\ UNCHANGED << clientSide, server, codec, reader >>

ApplyContentWithPriority(priority) ==
  /\ Holds("Content")
  /\ value' = [fn |-> "Content::with_priority",
               arg |-> [kind |-> "builder", self |-> value.ret.val,
                        priority |-> priority,
                        last |-> [SetterCalls EXCEPT !.priority = Some(priority)]],
               ret |-> ContentWithPriority(value.ret.val, priority)]
  /\ UNCHANGED << clientSide, server, codec, reader >>

ApplyContentUnannotated ==
  /\ Holds("Content")
  /\ value' = [fn |-> "Content::unannotated",
               arg |-> [kind |-> "builder", self |-> value.ret.val],
               ret |-> Built("Content", ContentUnannotated(value.ret.val))]
  /\ UNCHANGED << clientSide, server, codec, reader >>

ApplyNewImage ==
  /\ Called("PromptMessage::new_image")
  /\ value' = [fn |-> "PromptMessage::new_image", arg |-> value.arg,
               ret |-> NewImage(value.arg.role, value.arg.data,
                                value.arg.mime_type, value.arg.annotations)]
  /\ UNCHANGED << clientSide, server, codec, reader >>

ValueNext ==
  \/ ApplyRouterErrorFrom
  \/ ApplyErrorDataFrom
  \/ ApplyResourceNew
  \/ ApplyResourceWithUri
  \/ \E p \in Priorities : ApplyResourceWithPriority(p)
  \/ ApplyResourceMarkActive
  \/ \E m \in MimeTypes : ApplyResourceWithMimeType(m)
  \/ ApplyContentNew
  \/ \E a \in {<< "user" >>, << "assistant" >>} : ApplyContentWithAudience(a)
  \/ \E p \in Priorities : ApplyContentWithPriority(p)
  \/ ApplyContentUnannotated
  \/ ApplyNewImage

ValueSpec == ValueInit /\ [][ValueNext]_vars

\* C28: every Resource built by Resource::new, Resource::with_uri,
\* with_priority and mark_active, and every Content built by with_priority,
\* holds a priority within [0.0, 1.0], or none.
C28_PriorityWithinUnitRange ==
  (Holds("Resource") \/ Holds("Content")) =>
    LET p == PriorityOf(value.ret.val)
    IN  IsSome(p) => InUnitRange(Unwrap(p))

\* C29: a Resource built by Resource::new or Resource::with_uri, and one
\* returned by with_mime_type, has the mime_type "text" or "blob": the value
\* supplied when that is "text" or "blob", and "text", without an error,
\* when none or any other value is supplied; and no other call changes it.
C29_MimeTypeTextOrBlob ==
  /\ Holds("Resource") => value.ret.val.mime_type \in {"text", "blob"}
  /\ value.fn \in {"Resource::new", "Resource::with_uri"} =>
       /\ value.ret.status = "err" <=> UrlParse(value.arg.uri) = None
       /\ Holds("Resource") =>
            value.ret.val.mime_type =
              IF value.arg.mime_type \in {Some("text"), Some("blob")}
              THEN Unwrap(value.arg.mime_type)
              ELSE "text"
  /\ value.fn = "Resource::with_mime_type" =>
       /\ Holds("Resource")
       /\ value.ret.val.mime_type =
            IF value.arg.mime_type \in {"text", "blob"}
            THEN value.arg.mime_type
            ELSE "text"
  /\ value.fn \in {"Resource::with_priority", "Resource::mark_active"} =>
       value.ret.val.mime_type = value.arg.self.mime_type

\* A resource made a blob was given an invalid mime type and is text again.
C29_Witness ==
  /\ value.fn = "Resource::with_mime_type"
  /\ value.arg.self.mime_type = "blob"
  /\ value.arg.mime_type = "invalid"
  /\ value.ret.val.mime_type = "text"

\* C30: PromptMessage::new_image returns a message exactly when the data is
\* decodable base64 and the mime type starts with "image/"; otherwise it
\* returns the error InvalidParameters and no message; the message it
\* returns is an image message with the role, the data, the mime type and
\* the annotations it was given.
C30_NewImageValidates ==
  value.fn = "PromptMessage::new_image" =>
    LET a == value.arg
        r == value.ret
    IN  /\ r.status \in {"ok", "err"}
        /\ r.status = "ok" <=>
             (a.data \in DecodableData /\ a.mime_type \in ImageMimeTypes)
        /\ r.status = "err" => r.err.variant = "InvalidParameters"
        /\ r.status = "ok" =>
             /\ r.val.role = a.role
             /\ r.val.content.type = "image"
             /\ r.val.content.image.data = a.data
             /\ r.val.content.image.mime_type = a.mime_type
             /\ r.val.content.image.annotations = a.annotations

\* An assistant's image message with padded base64 data and annotations.
C30_Witness ==
  /\ value.fn = "PromptMessage::new_image"
  /\ value.ret.status = "ok"
  /\ value.arg.role = "assistant"
  /\ value.arg.data = << "a", "G", "k", "=" >>
  /\ IsSome(value.ret.val.content.image.annotations)

(***************************************************************************)
(* Properties of the client's errors and of its session state.             *)
(***************************************************************************)
\* C31: an operation whose call was ended by the timeout middleware (the
\* error of the call is tower's Elapsed) fails with the Timeout error, a
\* kind other than that of transport, RPC and server errors.
C31_TimeoutGivesTimeoutError ==
  (out.res.src = "call" /\ out.res.msg = "Elapsed") => out.res.kind = "Timeout"

(***************************************************************************)
(* The bytes read by ByteTransport.  BufReader fills its buffer with one   *)
(* read of the source; read_until moves bytes from that buffer into the    *)
(* vector it was given until it has moved a newline.  The source hands out *)
(* the input in pieces and returns Pending once before each piece that     *)
(* follows an armed position.                                              *)
(***************************************************************************)
MaxBytes == 4

Bytes == {"x", "y", "nl"}

RECURSIVE ByteStrings(_)
ByteStrings(n) ==
  IF n = 0 THEN {<< >>}
  ELSE LET shorter == ByteStrings(n - 1)
       IN  shorter \cup {Append(b, c) : b \in {z \in shorter : Len(z) = n - 1}, c \in Bytes}

\* The index of the first newline of `bytes`, 0 when there is none.
RECURSIVE FirstNewline(_, _)
FirstNewline(bytes, i) ==
  IF i > Len(bytes) THEN 0
  ELSE IF bytes[i] = "nl" THEN i
  ELSE FirstNewline(bytes, i + 1)

\* The lines of `bytes`, each with its newline, the unterminated rest last.
RECURSIVE LinesOf(_)
LinesOf(bytes) ==
  IF bytes = << >> THEN << >>
  ELSE LET i == FirstNewline(bytes, 1)
       IN  IF i = 0 THEN << bytes >>
           ELSE << SubSeq(bytes, 1, i) >> \o LinesOf(SubSeq(bytes, i + 1, Len(bytes)))

\* The end of the piece the source hands out at r.pos: the next position
\* where it returns Pending, or the end of the input.
PieceEnd(r) ==
  LET ends == {p \in r.armed : p > r.pos} \cup {Len(r.input)}
  IN  CHOOSE e \in ends : \A f \in ends : e <= f

\* read_until(b'\n', &mut buf) polled once: r is the reader, buf the vector.
RECURSIVE ReadUntil(_, _)
ReadUntil(r, buf) ==
  IF r.buffer = << >>
  THEN IF r.pos \in r.armed
       THEN [poll |-> "Pending", buf |-> buf,
             reader |-> [r EXCEPT !.armed = @ \ {r.pos}]]
       ELSE IF r.pos = Len(r.input)
       THEN [poll |-> "Ready", buf |-> buf, reader |-> r]
       ELSE LET e == PieceEnd(r)
            IN  ReadUntil([r EXCEPT !.buffer = SubSeq(r.input, r.pos + 1, e),
                                    !.pos = e], buf)
  ELSE LET i == FirstNewline(r.buffer, 1)
       IN  IF i = 0
           THEN ReadUntil([r EXCEPT !.buffer = << >>], buf \o r.buffer)
           ELSE [poll |-> "Ready", buf |-> buf \o SubSeq(r.buffer, 1, i),
                 reader |-> [r EXCEPT !.buffer = SubSeq(@, i + 1, Len(@))]]

\* poll_next up to the line it read: a new vector and a new read_until on
\* every poll, both dropped when the poll returns.
PollNextBytes(r) ==
  LET read == ReadUntil(r, << >>)
  IN  IF read.poll = "Pending"
      THEN [read EXCEPT !.reader.lost = @ + Len(read.buf)]
      ELSE read

ReaderInit ==
  /\ ClientInit
  /\ server = ServerIdle
  /\ codec = CodecIdle
  /\ value = ValueIdle
  /\ \E input \in ByteStrings(MaxBytes) :
       \E cuts \in SUBSET (1 .. Len(input) - 1) :
         reader = [ReaderIdle EXCEPT !.input = input, !.armed = cuts]

\* One poll of the stream by Server::run.
ReaderPollNext ==
  /\ ~reader.done
  /\ LET polled == PollNextBytes(reader)
     IN  reader' =
           IF polled.poll = "Pending" THEN polled.reader
           ELSE IF polled.buf = << >> THEN [polled.reader EXCEPT !.done = TRUE]
           ELSE [polled.reader EXCEPT !.emitted = Append(@, polled.buf)]
  /\ UNCHANGED << clientSide, server, codec, value >>

ReaderNext == ReaderPollNext

ReaderSpec == ReaderInit /\ [][ReaderNext]_vars

\* C32: when the input has reached EOF the frames emitted are the lines of
\* the input, whatever pieces the source delivered them in.
C32_FramesIndependentOfChunking ==
  reader.done => reader.emitted = LinesOf(reader.input)

\* The notifications handed to the service so far.
NotificationsSent(log) == {k \in 1..Len(log) : log[k].type = "Notification"}

\* C33: no step of an initialize before its last one (the store that follows
\* the accepted notification) changes the stored capabilities or server
\* info, so an initialize that fails, at its request or at its
\* notification, leaves them as they were at the call; when they were unset
\* every gated operation still answers NotInitialized; and an initialize
\* whose request failed has handed no notification to the service.
C33_FailedInitializeStoresNothing ==
  [][\A t \in Tasks : op[t] = InitializeOp =>
       /\ pc[t] # "store" =>
            /\ server_capabilities' = server_capabilities
            /\ server_info' = server_info
       /\ (pc'[t] = "idle" /\ out'.res.kind # "Ok") =>
            /\ pc[t] \in {"ready", "await", "notify"}
            /\ server_capabilities = None =>
                 \A o \in GatedOps :
                   Gate(o, server_capabilities').kind = "NotInitialized"
            /\ pc[t] \in {"ready", "await"} => out'.init = None
            /\ pc[t] = "notify" => IsSome(out'.init)
       /\ (pc[t] \in {"lock", "ready", "await"} /\ pc'[t] # pc[t]) =>
            NotificationsSent(sent') = NotificationsSent(sent)
    ]_vars

\* A first initialize whose request was answered failed at its notification:
\* the session holds neither capabilities nor server info.
C33_Witness ==
  /\ out.op = InitializeOp
  /\ out.res.kind = "McpServerError"
  /\ IsSome(out.init)
  /\ out.calls = 2
  /\ server_capabilities = None
  /\ server_info = None
  /\ sent = << SentEntry("Request", Some(1), TRUE),
               SentEntry("Notification", None, FALSE) >>

\* C34: no step unsets stored capabilities or stored server info, and they
\* change only in the step in which an initialize returns Ok: an operation
\* that returns an error (a failed call, an error reply, a timeout, an id
\* mismatch) leaves both as they were.
C34_SessionNeverMovesBackward ==
  [][ /\ IsSome(server_capabilities) => IsSome(server_capabilities')
      /\ IsSome(server_info) => IsSome(server_info')
      /\ (server_capabilities' # server_capabilities \/ server_info' # server_info)
           => (out'.op = InitializeOp /\ out'.res.kind = "Ok")
      /\ out'.res.kind \notin {"none", "Ok"} => out'.after = out'.before
    ]_vars

\* On an initialized session a request timed out: the capabilities and the
\* server info are still stored.
C34_Witness ==
  /\ out.op \in GatedOps
  /\ out.res = McpServerError("Elapsed")
  /\ IsSome(out.before)
  /\ server_capabilities = out.before
  /\ IsSome(server_info)

\* The reply situations in which m, got for the request with id `issued`, is
\* no usable reply: a Response or an Error with another id (an absent id
\* included), a Response with neither result nor error, or a message that is
\* no reply at all.
IsUnexpectedReply(m, issued) ==
  \/ m.type \in {"Response", "Error"} /\ m.id # issued
  \/ m.type = "Response" /\ m.result = None /\ m.error = None
  \/ m.type \in {"Nil", "Request", "Notification"}

\* C35: when the call of a request resolves with a message, the operation
\* returns UnexpectedResponse exactly when the message is a Response or an
\* Error with another id than the request's, a Response with neither result
\* nor error, or a Nil, a Request or a Notification; and UnexpectedResponse
\* is returned by no other step.
C35_UnexpectedResponseExactly ==
  [][ /\ \A t \in Tasks :
           (pc[t] = "await" /\ pc'[t] # "await") =>
             \A m \in (IF svc = "generic" THEN ServiceReplies(op[t])
                       ELSE {Unwrap(i) : i \in {inbox[t]} \ {None}}) :
               CallResolves(t, m)
                 => (IsUnexpectedReply(m, req_id[t])
                       <=> (/\ out'.op = op[t]
                            /\ out'.res.kind = "UnexpectedResponse"))
      /\ (out'.res.kind = "UnexpectedResponse" /\ out' # out)
           => \E t \in Tasks : pc[t] = "await" /\ pc'[t] = "idle"
                                 /\ out'.res.src = "reply"
    ]_vars

\* An Error reply without id was reported as an unexpected response.
C35_Witness ==
  /\ out.op \in GatedOps
  /\ IsSome(out.id)
  /\ out.res.kind = "UnexpectedResponse"
  /\ out.res.msg = "id mismatch for JsonRpcError"
  /\ out.res.rid = None

(***************************************************************************)
(* Properties of the server's loop: frames that are no Requests.           *)
(***************************************************************************)
\* A line that is JSON but no JSON-RPC message: no object, or an object
\* whose jsonrpc member is missing or is not the string "2.0".
IsInvalidFrame(l) ==
  \/ l.kind \in {"null", "number"}
  \/ l.kind = "object" /\ l.jsonrpc # J("string", "2.0")

\* C36: a frame that is JSON but no object, or an object without the member
\* jsonrpc or with another value than "2.0" in it, is an InvalidMessage
\* error of the framer whatever its other members are; the server answers
\* it with exactly one message, the Error reply with no id and code
\* PARSE_ERROR, calls no handler, and stays at the read of the next frame,
\* where it can take a Request.  run returns at that step only when the
\* write of the Error reply fails.
C36_InvalidMessageGetsParseError ==
  /\ [][\A l \in ServerFrames, wo \in WriteOutcomes :
          (IsInvalidFrame(l) /\ ServerRead(l, wo))
            => /\ PollNext(l) = Err("InvalidMessage")
               /\ server'.last = "transport_error"
               /\ server'.request = None
               /\ server'.reqs = server.reqs
               /\ IF wo = "ok"
                  THEN /\ server'.written
                            = Append(server.written,
                                     Msg("Error", None, "", None,
                                         Some(ErrorData(PARSE_ERROR,
                                                        "Invalid message format"))))
                       /\ server'.pc = "next"
                  ELSE /\ server'.pc = "failed"
                       /\ ~server'.flushed \/ server'.torn]_vars
  /\ []((/\ server.last = "transport_error"
         /\ server.pc = "next"
         /\ server.frames < MaxFrames
         /\ server.written[Len(server.written)] = ErrorReply("InvalidMessage"))
          => ENABLED ServerRead(RequestLine(2), "ok"))

\* A frame was answered with the Error reply of an invalid message, and the
\* Request read after it with its Response.
C36_Witness ==
  /\ server.frames = 2
  /\ Len(server.written) = 2
  /\ server.written[1] = ErrorReply("InvalidMessage")
  /\ Unwrap(server.written[1].error).code = PARSE_ERROR
  /\ server.written[2].type = "Response"
  /\ server.reqs = << 2 >>

\* A line and the message it carries that is no Request.
NotificationLine ==
  ObjectLine(J("string", "2.0"), AbsentNum, J("string", "notifications/initialized"),
             AbsentStr, AbsentStr, AbsentErr)

\* The frames the framer yields as messages, and those of them that are no
\* Requests.
MessageFrames == {l \in ServerFrames : PollNext(l).ok}
NonRequestFrames ==
  {l \in MessageFrames :
     PollNext(l).val.type \in {"Notification", "Response", "Error", "Nil"}}

\* C37: a frame read as a message that is no Request (a Notification, a
\* Response, an Error or Nil) is consumed by the read alone: nothing is
\* written, no request is recorded and no handler call follows, the server
\* is at the read of the next frame; notifications/initialized is such a
\* frame.
C37_NonRequestsAreIgnored ==
  /\ [][\A l \in NonRequestFrames, wo \in WriteOutcomes :
          ServerRead(l, wo)
            => /\ server'.written = server.written
               /\ server'.flushed = server.flushed
               /\ server'.torn = server.torn
               /\ server'.reqs = server.reqs
               /\ server'.request = None
               /\ server'.pc = "next"
               /\ server'.last = "ignored"
               /\ server'.frames = server.frames + 1]_vars
  /\ [](server.last = "ignored"
          => /\ server.pc = "next"
             /\ ~ENABLED ServerCallOk([result |-> Some("{}"), error |-> None], "ok")
             /\ ~ENABLED ServerCallErr("boom", "ok"))
  /\ NotificationLine \in NonRequestFrames
  /\ PollNext(NotificationLine) = Ok(Notification("notifications/initialized"))
  /\ {PollNext(l).val.type : l \in NonRequestFrames}
       = {"Notification", "Response", "Error", "Nil"}

\* Three frames that are no Requests were read: nothing was written and no
\* handler was called.
C37_Witness ==
  /\ server.frames = 3
  /\ server.last = "ignored"
  /\ server.written = << >>
  /\ server.reqs = << >>
  /\ server.pc = "next"

(***************************************************************************)
(* The server's loop on a finite input: every read, every handler call and *)
(* every write completes.                                                  *)
(***************************************************************************)
ServerFairness == WF_vars(ServerNext)

FairServerSpec == ServerInit /\ [][ServerNext]_vars /\ ServerFairness

\* The frames the framer yields as errors of its own.
FramerErrorFrames ==
  {l \in ServerFrames : PollNext(l).err \in {"Json", "InvalidMessage", "Utf8"}}

\* run has returned.
Returned == server.pc \in {"done", "failed"}

\* C38: run returns Ok only from the read that meets EOF, when no request is
\* unanswered and every message it wrote was written whole and flushed; it
\* returns the transport error in the very step in which a write fails, and
\* in no other; after its return nothing happens; a frame that is an error
\* of the framer (bad JSON, invalid message, bad UTF-8) leaves the loop at
\* its next read unless the write of its Error reply fails; and when every
\* read, handler call and write completes, run does return.
C38_RunTerminatesByEofOrWriteFailure ==
  /\ [](server.pc = "done"
          => /\ server.last = "eof"
             /\ server.request = None
             /\ server.flushed /\ ~server.torn
             /\ Len(ResponseIds(server.written)) = Len(server.reqs))
  /\ [](server.pc = "failed" => (~server.flushed \/ server.torn))
  /\ [](Returned => ~ENABLED ServerNext)
  /\ [][/\ server'.pc = "done" => (server.pc = "next" /\ ServerEof)
        /\ server'.pc = "failed" =>
             \E wo \in WriteFailures :
               \/ \E l \in ServerFrames \ MessageFrames : ServerRead(l, wo)
               \/ \E p \in ServicePayloads : ServerCallOk(p, wo)
               \/ \E e \in HandlerFailures : ServerCallErr(e, wo)
        /\ \A wo \in WriteFailures :
             (\/ \E l \in ServerFrames \ MessageFrames : ServerRead(l, wo)
              \/ \E p \in ServicePayloads : ServerCallOk(p, wo)
              \/ \E e \in HandlerFailures : ServerCallErr(e, wo))
               => server'.pc = "failed"
        /\ \A l \in FramerErrorFrames :
             ServerRead(l, "ok") => server'.pc = "next"]_vars
  /\ <>Returned

\* run returned Ok at EOF after three frames, one of them answered with the
\* Error reply of a framer error and one with a Response.
C38_Witness ==
  /\ server.pc = "done"
  /\ server.frames = MaxFrames
  /\ Len(server.written) = 2
  /\ \E k \in 1..2 : server.written[k].type = "Error"
  /\ \E k \in 1..2 : server.written[k].type = "Response"

(***************************************************************************)
(* Properties of the pending-request table: an id inserted twice.          *)
(***************************************************************************)
\* The tasks that wait on the one-shot channel of sender s.
WaitingOn(s) == {t \in Tasks : rx[t] = Some(s) /\ inbox[t] = None}

\* C39: when the transport registers a request whose id is already pending,
\* the table holds that id once, with the new sender; the caller that waits
\* on the earlier sender gets RecvError, which its send returns as
\* ChannelClosed, and no other caller is touched; a later response to the id
\* is removed from the table with, and delivered to, the new sender only.
C39_InsertReplacesPendingId ==
  [][/\ (/\ chan # << >>
         /\ Head(chan).message.type = "Request"
         /\ IsSome(Head(chan).response_tx)
         /\ ActorOutbound)
          => LET i == Unwrap(Head(chan).message.id)
                 tx == Unwrap(Head(chan).response_tx)
             IN  /\ DOMAIN pending' = DOMAIN pending \cup {i}
                 /\ pending'[i] = tx
                 /\ \A j \in DOMAIN pending \ {i} : pending'[j] = pending[j]
                 /\ \A t \in Tasks :
                      inbox'[t] =
                        IF i \in DOMAIN pending /\ t \in WaitingOn(pending[i])
                        THEN Some(RecvError) ELSE inbox[t]
     /\ \A t \in Tasks :
          (inbox[t] = Some(RecvError) /\ pc'[t] = "idle" /\ pc[t] \in {"recv", "await"})
            => /\ out'.res.msg = "ChannelClosed"
               /\ out'.res.kind = IF pc[t] = "recv" THEN "TransportError"
                                  ELSE "McpServerError"
     /\ out'.op = "respond"
          => LET i == Unwrap(out'.id) IN
               /\ i \in DOMAIN pending
               /\ i \notin DOMAIN pending'
               /\ \A t \in Tasks :
                    inbox'[t] # inbox[t]
                      => (t \in WaitingOn(pending[i]) /\ IsSome(inbox'[t])
                            /\ Unwrap(inbox'[t]) # RecvError)
    ]_vars

\* Two callers sent a request with the same id: the earlier one has got
\* RecvError while the transport is open, the table holds the id with the
\* sender of the later one.
C39_Witness ==
  \E t \in Tasks, u \in Tasks :
    /\ t # u
    /\ tstate = "open"
    /\ inbox[t] = Some(RecvError)
    /\ IsSome(req_id[t]) /\ req_id[u] = req_id[t]
    /\ IsSome(rx[u]) /\ inbox[u] = None
    /\ Unwrap(req_id[u]) \in DOMAIN pending
    /\ pending[Unwrap(req_id[u])] = Unwrap(rx[u])

(***************************************************************************)
(* Properties of the annotations of a Content.                             *)
(***************************************************************************)
\* What a Content carries besides its annotations.
Payload(c) ==
  CASE c.type = "text" -> << "text", c.text >>
    [] c.type = "image" -> << "image", c.data, c.mime_type >>
    [] OTHER -> << "resource", c.resource >>

\* C40: a text, image or resource Content built by a constructor and any
\* sequence of with_audience and with_priority calls (priorities in range)
\* holds as audience the argument of the last with_audience call and as
\* priority that of the last with_priority call, each unset when there was
\* no such call; every such call, and unannotated(), returns the payload it
\* was given, and unannotated() returns it with no annotations.
C40_SettersAreIndependent ==
  Holds("Content") =>
    LET c == value.ret.val IN
      /\ value.fn \in {"Content::text", "Content::image", "Content::resource"}
           => c.annotations = None
      /\ value.fn \in {"Content::with_audience", "Content::with_priority"}
           => /\ AudienceOf(c) = SetterCalls.audience
              /\ PriorityOf(c) = SetterCalls.priority
              /\ Payload(c) = Payload(value.arg.self)
              /\ c.type = value.arg.self.type
      /\ value.fn = "Content::with_audience"
           => SetterCalls.audience = Some(value.arg.audience)
      /\ value.fn = "Content::with_priority"
           => SetterCalls.priority = Some(value.arg.priority)
      /\ value.fn = "Content::unannotated"
           => /\ Payload(c) = Payload(value.arg.self)
              /\ AudienceOf(c) = None
              /\ PriorityOf(c) = None
              /\ c.annotations = None

\* with_priority(0.5) and then with_audience([assistant]) on an image that
\* held the audience [user]: the last arguments of both are held.
C40_Witness ==
  /\ Holds("Content")
  /\ value.fn = "Content::with_audience"
  /\ value.ret.val.type = "image"
  /\ AudienceOf(value.arg.self) = Some(<< "user" >>)
  /\ PriorityOf(value.arg.self) = Some(F32(5))
  /\ AudienceOf(value.ret.val) = Some(<< "assistant" >>)
  /\ PriorityOf(value.ret.val) = Some(F32(5))

====
